---- MODULE Spec2Model ----
(***************************************************************************)
(* YieldPilot seller agent (src/seller.js): the onNewTask handler of the   *)
(* ACP client, the jobMetadata cache it keeps between the negotiation      *)
(* phase and the delivery phase, the job router and the five deliverable   *)
(* computers with their validators.                                        *)
(*                                                                         *)
(* JavaScript values are tagged records: the tag t is the value's kind,    *)
(* the second field its content.  An object is a function from its own     *)
(* property names to values; a property that is not in the domain reads    *)
(* as undefined.                                                           *)
(***************************************************************************)
EXTENDS Integers, Sequences, FiniteSets, TLC

VARIABLES
    jobMetadata,   \* the Map of seller.js:9, a function from the job ids it holds
    tasks,         \* the onNewTask invocations so far, in order of arrival
    call           \* one function of seller.js called on its own: name, argument, outcome

vars == <<jobMetadata, tasks, call>>

(***************************************************************************)
(* JavaScript values                                                       *)
(***************************************************************************)
Undef == [t |-> "undefined"]
Null == [t |-> "null"]
Num(n) == [t |-> "number", n |-> n]
Str(s) == [t |-> "string", s |-> s]
Bool(b) == [t |-> "boolean", b |-> b]
Arr(a) == [t |-> "array", a |-> a]
Obj(o) == [t |-> "object", o |-> o]
EmptyObj == Obj([f \in {} |-> Undef])

\* NaN: typeof "number", and no number to ensureNumber.
NaN == [t |-> "NaN"]

Nullish(v) == v.t \in {"undefined", "null"}

\* ToBoolean: what `if (v)`, `!v`, `v || d` and `v && w` test.
Truthy(v) ==
    CASE v.t \in {"undefined", "null", "NaN"} -> FALSE
      [] v.t = "number" -> v.n # 0
      [] v.t = "string" -> v.s # ""
      [] v.t = "boolean" -> v.b
      [] OTHER -> TRUE

\* v.f for a value v that is neither null nor undefined (those raise a
\* TypeError, which the callers below test for before reading).
Get(v, f) == IF v.t = "object" /\ f \in DOMAIN v.o THEN v.o[f] ELSE Undef

\* v || d
OrElse(v, d) == IF Truthy(v) THEN v ELSE d

\* String(err) of an Error object: "<name>: <message>".
StringOf(err) == err.name \o ": " \o err.message

\* The two ways a call ends.
Returned(v) == [ret |-> v]
Thrown(e) == [threw |-> e]
Threw(r) == "threw" \in DOMAIN r
TypeError == [name |-> "TypeError", message |-> "not a function or nullish receiver"]
RangeError == [name |-> "RangeError", message |-> "Invalid time value"]
ReferenceError == [name |-> "ReferenceError", message |-> "sharpe_ratio_estimate is not defined"]

(***************************************************************************)
(* Small helper utilities                                                  *)
(***************************************************************************)
ensureString(v) == v.t = "string"
ensureNumber(v) == v.t = "number"
ensureBoolean(v) == v.t = "boolean"
ensureArray(v) == v.t = "array"
validationError(message, field) == [message |-> message, field |-> field]

\* errors.push(e) when cond
PushIf(cond, e) == IF cond THEN <<e>> ELSE <<>>

\* String.prototype.toLowerCase, toUpperCase and includes, on the letters
\* of the ASCII alphabet.
LowerOf ==
    [A |-> "a", B |-> "b", C |-> "c", D |-> "d", E |-> "e", F |-> "f", G |-> "g",
     H |-> "h", I |-> "i", J |-> "j", K |-> "k", L |-> "l", M |-> "m", N |-> "n",
     O |-> "o", P |-> "p", Q |-> "q", R |-> "r", S |-> "s", T |-> "t", U |-> "u",
     V |-> "v", W |-> "w", X |-> "x", Y |-> "y", Z |-> "z"]
UpperOf ==
    [a |-> "A", b |-> "B", c |-> "C", d |-> "D", e |-> "E", f |-> "F", g |-> "G",
     h |-> "H", i |-> "I", j |-> "J", k |-> "K", l |-> "L", m |-> "M", n |-> "N",
     o |-> "O", p |-> "P", q |-> "Q", r |-> "R", s |-> "S", t |-> "T", u |-> "U",
     v |-> "V", w |-> "W", x |-> "X", y |-> "Y", z |-> "Z"]
\* Every character of the first n of s that the table holds is replaced.
RECURSIVE Translated(_, _, _)
Translated(s, n, table) ==
    IF n = 0 THEN ""
    ELSE LET c == SubSeq(s, n, n) IN
         Translated(s, n - 1, table) \o (IF c \in DOMAIN table THEN table[c] ELSE c)
toLowerCase(s) == Translated(s, Len(s), LowerOf)
toUpperCase(s) == Translated(s, Len(s), UpperOf)
includes(s, part) ==
    \E i \in 1..(Len(s) - Len(part) + 1) : SubSeq(s, i, i + Len(part) - 1) = part

(***************************************************************************)
(* JOB 1: yield_scan_and_ranking                                           *)
(***************************************************************************)
\* Array.prototype.every(ensureString)
EveryString(a) == \A i \in 1..Len(a) : ensureString(a[i])

validateYieldScan(input) ==
    PushIf(~ensureString(Get(input, "client_agent_id")),
           validationError("client_agent_id must be string", "client_agent_id"))
    \o PushIf(~ensureString(Get(input, "chain")),
           validationError("chain must be string", "chain"))
    \o (IF ~ensureArray(Get(input, "assets"))
        THEN <<validationError("assets must be array of strings", "assets")>>
        ELSE PushIf(~EveryString(Get(input, "assets").a),
                    validationError("assets items must be strings", "assets")))
    \o PushIf(~ensureString(Get(input, "risk_tolerance")),
           validationError("risk_tolerance must be string", "risk_tolerance"))
    \o PushIf(~ensureNumber(Get(input, "min_tvl_usd")),
           validationError("min_tvl_usd must be number", "min_tvl_usd"))
    \o PushIf(~ensureNumber(Get(input, "lookback_hours")),
           validationError("lookback_hours must be number", "lookback_hours"))

\* (chain || '').toLowerCase() of chainRiskFactor raises a TypeError for a
\* truthy chain that is no string.
chainRiskFactorThrows(chain) == Truthy(chain) /\ ~ensureString(chain)

\* classifyAsset's (symbol || '').toUpperCase() raises for a truthy element
\* that is no string, assetSymbol.slice(0, 4) for a falsy one.
AssetThrows(assetSymbol) == ~ensureString(assetSymbol)

\* The common fields of every deliverable; the fields of one job kind are
\* defined with the claims about that kind.
Deliverable(job_name, errors) ==
    [job_name |-> job_name,
     timestamp_utc |-> "nowIso",
     validation_passed |-> (Len(errors) = 0),
     validation_errors |-> errors]

\* classifyAsset of a string.
classifyAsset(symbol) ==
    LET s == toUpperCase(symbol) IN
    IF s \in {"USDC", "USDT", "DAI", "FRAX", "LUSD"} THEN "stablecoin"
    ELSE IF s \in {"ETH", "WETH", "WBTC"} THEN "bluechip"
    ELSE IF includes(s, "-LP") \/ includes(s, "/") THEN "lp_token"
    ELSE "long_tail"

\* chainRiskFactor of a string, in tenths: 8 is 0.8.
chainRiskFactor(chain) ==
    LET c == toLowerCase(chain) IN
    IF includes(c, "mainnet") \/ c = "ethereum" THEN 8
    ELSE IF includes(c, "base") \/ includes(c, "arbitrum") \/ includes(c, "optimism") THEN 10
    ELSE 12

riskToleranceBias(riskTolerance) ==
    CASE riskTolerance = Str("conservative") -> [apyBoost |-> -3, riskBoost |-> -15]
      [] riskTolerance = Str("aggressive") -> [apyBoost |-> 5, riskBoost |-> 10]
      [] OTHER -> [apyBoost |-> 0, riskBoost |-> 0]

\* The base APY of an asset type in a risk band, in percent.
baseApy(assetType, level) ==
    CASE assetType = "stablecoin" -> [low |-> 3, medium |-> 6, high |-> 12][level]
      [] assetType = "bluechip" -> [low |-> 4, medium |-> 10, high |-> 20][level]
      [] assetType = "lp_token" -> [low |-> 8, medium |-> 20, high |-> 45][level]
      [] OTHER -> [low |-> 6, medium |-> 18, high |-> 60][level]

\* ToNumber, as Math.max and the comparisons apply it to minTvl; of the
\* strings, the ones the requirements of the model hold.
ToNumber(v) ==
    CASE v.t = "number" -> v
      [] v.t = "string" -> (IF v.s = "" THEN Num(0)
                            ELSE IF v.s = "1e5" THEN Num(100000)
                            ELSE NaN)
      [] v.t = "boolean" -> (IF v.b THEN Num(1) ELSE Num(0))
      [] v.t = "null" -> Num(0)
      [] OTHER -> NaN

\* x * k and x >= y of numbers that may be NaN.
Times(x, k) == IF x.t = "NaN" THEN NaN ELSE Num(x.n * k)
AtLeast(x, y) == x.t = "number" /\ y.t = "number" /\ x.n >= y.n

\* Math.max(minTvl, 50_000)
tvlFloor(minTvl) ==
    LET m == ToNumber(minTvl) IN
    IF m.t = "NaN" THEN NaN ELSE IF m.n >= 50000 THEN m ELSE Num(50000)

Max(a, b) == IF a >= b THEN a ELSE b
Min(a, b) == IF a <= b THEN a ELSE b
\* Math.round of n / 10
RoundTenths(n) == (n + 5) \div 10

buildRiskScore(level, tvl, floor, chainRisk) ==
    LET base == [low |-> 20, medium |-> 45, high |-> 70][level]
        score == IF AtLeast(tvl, Times(floor, 25)) THEN base - 5
                 ELSE IF AtLeast(tvl, Times(floor, 5)) THEN base - 2
                 ELSE base
    IN  Max(5, Min(95, RoundTenths(score * chainRisk)))

\* Mutant: the risk tolerance bias added without the second clamp.
finalRiskScoreUnclamped(riskScore) == riskScore

\* Math.max(5, Math.min(95, Math.round(riskScore))) of an integer
finalRiskScore(riskScore) == Max(5, Min(95, riskScore))

Levels == <<"low", "medium", "high">>
Protocols == [low |-> "SafeLend", medium |-> "YieldDex", high |-> "DeFiTurbo"]

\* The venue of one variant of one asset.  estimated_apy is held in tenths
\* of a percent: Math.max(0.1, Math.round((apyBase + apyBoost) * 10) / 10).
Opportunity(input, assetSymbol, level) ==
    LET chain == OrElse(Get(input, "chain"), Str("unknown"))
        rt == OrElse(Get(input, "risk_tolerance"), Str("balanced"))
        bias == riskToleranceBias(rt)
        assetType == classifyAsset(assetSymbol.s)
        floor == tvlFloor(OrElse(Get(input, "min_tvl_usd"), Num(0)))
        tvl == [low |-> Times(floor, 25), medium |-> Times(floor, 5), high |-> floor][level]
    IN  [protocol |-> Protocols[level],
         chain |-> chain,
         asset |-> assetSymbol,
         asset_type |-> assetType,
         risk_band |-> level,
         estimated_apy |-> Max(1, (baseApy(assetType, level) + bias.apyBoost) * 10),
         tvl_usd |-> tvl,
         risk_score |-> finalRiskScore(buildRiskScore(level, tvl, floor,
                                                      chainRiskFactor(chain.s))
                                       + bias.riskBoost)]

\* assets.forEach over variants.forEach: three venues per asset, in order.
Opportunities(input, assets) ==
    [k \in 1..(3 * Len(assets)) |->
        Opportunity(input, assets[((k - 1) \div 3) + 1], Levels[((k - 1) % 3) + 1])]

\* bUtil - aUtil of the comparator, times 200.  The last branch of bUtil
\* reads b.estimated_apy - b.estimated_apy * 0.15.
utilityCompare(rt, a, b) ==
    LET aUtil == IF rt = Str("conservative") THEN 20 * a.estimated_apy - 40 * a.risk_score
                 ELSE IF rt = Str("aggressive") THEN 26 * a.estimated_apy - 20 * a.risk_score
                 ELSE 20 * a.estimated_apy - 30 * a.risk_score
        bUtil == IF rt = Str("conservative") THEN 20 * b.estimated_apy - 40 * b.risk_score
                 ELSE IF rt = Str("aggressive") THEN 26 * b.estimated_apy - 20 * b.risk_score
                 ELSE 20 * b.estimated_apy - 3 * b.estimated_apy
    IN  bUtil - aUtil

\* Array.prototype.sort of Node's engine for an array of fewer than 64
\* elements: the leading run is found (and reversed when it is strictly
\* descending), and every later element is placed by a binary search among
\* the elements before it.  The calls of the comparator and their order are
\* the engine's, so the result is the engine's also for a comparator that
\* is no ordering.
RECURSIVE RunEnd(_, _, _, _)
RunEnd(rt, a, descending, idx) ==
    IF idx > Len(a) THEN idx - 1
    ELSE LET order == utilityCompare(rt, a[idx], a[idx - 1]) IN
         IF (descending /\ order >= 0) \/ (~descending /\ order < 0) THEN idx - 1
         ELSE RunEnd(rt, a, descending, idx + 1)

Reversed(a) == [i \in 1..Len(a) |-> a[Len(a) + 1 - i]]

RECURSIVE InsertionPoint(_, _, _, _, _)
InsertionPoint(rt, a, pivot, left, right) ==
    IF left >= right THEN left
    ELSE LET mid == left + ((right - left) \div 2) IN
         IF utilityCompare(rt, pivot, a[mid]) < 0
         THEN InsertionPoint(rt, a, pivot, left, mid)
         ELSE InsertionPoint(rt, a, pivot, mid + 1, right)

RECURSIVE BinaryInsertionSort(_, _, _)
BinaryInsertionSort(rt, a, start) ==
    IF start > Len(a) THEN a
    ELSE LET at == InsertionPoint(rt, a, a[start], 1, start)
             placed == SubSeq(a, 1, at - 1) \o <<a[start]>> \o SubSeq(a, at, start - 1)
                       \o SubSeq(a, start + 1, Len(a))
         IN  BinaryInsertionSort(rt, placed, start + 1)

utilitySorted(rt, a) ==
    IF Len(a) < 2 THEN a
    ELSE LET descending == utilityCompare(rt, a[2], a[1]) < 0
             run == RunEnd(rt, a, descending, 3)
             made == IF descending
                     THEN Reversed(SubSeq(a, 1, run)) \o SubSeq(a, run + 1, Len(a))
                     ELSE a
         IN  BinaryInsertionSort(rt, made, run + 1)

handleYieldScan(input) ==
    LET errors == validateYieldScan(input)
        chain == OrElse(Get(input, "chain"), Str("unknown"))
        assets == IF ensureArray(Get(input, "assets")) THEN Get(input, "assets").a ELSE <<>>
        minTvl == OrElse(Get(input, "min_tvl_usd"), Num(0))
        rt == OrElse(Get(input, "risk_tolerance"), Str("balanced"))
    IN  IF chainRiskFactorThrows(chain) THEN Thrown(TypeError)
        ELSE IF \E i \in 1..Len(assets) : AssetThrows(assets[i]) THEN Thrown(TypeError)
        ELSE Returned(Deliverable("yield_scan_and_ranking", errors)
                      @@ [chain |-> chain,
                          assets |-> assets,
                          risk_tolerance |-> rt,
                          min_tvl_usd_applied |-> minTvl,
                          opportunities_ranked |->
                              utilitySorted(rt, Opportunities(input, assets))])

(***************************************************************************)
(* JOB 2: portfolio_yield_allocation_plan                                  *)
(***************************************************************************)
validatePortfolioPlan(input) ==
    LET p == Get(input, "preferences") IN
    PushIf(~ensureString(Get(input, "client_agent_id")),
           validationError("client_agent_id must be string", "client_agent_id"))
    \o PushIf(~ensureString(Get(input, "chain")),
           validationError("chain must be string", "chain"))
    \o PushIf(~ensureNumber(Get(input, "starting_capital_usd")),
           validationError("starting_capital_usd must be number", "starting_capital_usd"))
    \o PushIf(~ensureString(Get(input, "risk_tolerance")),
           validationError("risk_tolerance must be string", "risk_tolerance"))
    \o PushIf(~ensureNumber(Get(input, "target_horizon_days")),
           validationError("target_horizon_days must be number", "target_horizon_days"))
    \o (IF p.t \notin {"object", "array"}
        THEN <<validationError("preferences must be object", "preferences")>>
        ELSE PushIf(~ensureBoolean(Get(p, "allow_leverage")),
                    validationError("preferences.allow_leverage must be boolean",
                                    "preferences.allow_leverage"))
             \o PushIf(~ensureBoolean(Get(p, "allow_lockups")),
                    validationError("preferences.allow_lockups must be boolean",
                                    "preferences.allow_lockups"))
             \o PushIf(~ensureNumber(Get(p, "max_positions")),
                    validationError("preferences.max_positions must be number",
                                    "preferences.max_positions")))

\* A number with one decimal, held in tenths: Tenths(15) is 1.5.
Tenths(k) == [t |-> "number", tenths |-> k]
TenthsOf(v) == IF "tenths" \in DOMAIN v THEN v.tenths ELSE 10 * v.n

\* input.preferences || { allow_leverage: false, allow_lockups: false, max_positions: 3 }
preferencesApplied(input) ==
    OrElse(Get(input, "preferences"),
           Obj([allow_leverage |-> Bool(FALSE), allow_lockups |-> Bool(FALSE),
                max_positions |-> Num(3)]))

\* The weights of the three buckets, in units of 1/20000: 15000 is 0.75.
bucketWeights(rt) ==
    CASE rt = Str("conservative") ->
             [core |-> 15000, satellite |-> 4000, experimental |-> 1000]
      [] rt = Str("aggressive") ->
             [core |-> 8000, satellite |-> 7000, experimental |-> 5000]
      [] OTHER -> [core |-> 12000, satellite |-> 5000, experimental |-> 3000]

\* if (!prefs.allow_lockups): the experimental weight is halved and a
\* quarter of the halved weight is added to the two other buckets.
withoutLockups(w) ==
    LET experimentalWeight == w.experimental \div 2
        deficit == experimentalWeight \div 4
    IN  [core |-> w.core + deficit, satellite |-> w.satellite + deficit,
         experimental |-> experimentalWeight]

\* Mutant: the weights left as they are, not divided by their sum.
normalizedOmitted(w) == w @@ [total |-> 20000]

\* The division by totalWeight: each weight is its field over total.
normalized(w) ==
    LET sum == w.core + w.satellite + w.experimental IN
    w @@ [total |-> IF sum = 0 THEN 20000 ELSE sum]

\* coreWeight, satelliteWeight and experimentalWeight after normalization.
Weights(input) ==
    LET rt == OrElse(Get(input, "risk_tolerance"), Str("balanced"))
        w == bucketWeights(rt)
    IN  normalized(IF ~Truthy(Get(preferencesApplied(input), "allow_lockups"))
                   THEN withoutLockups(w)
                   ELSE w)

\* Math.max(1, Math.round(prefs.max_positions)); NaN for what is no number.
maxPositions(prefs) ==
    LET m == ToNumber(Get(prefs, "max_positions")) IN
    IF m.t = "NaN" THEN NaN ELSE Num(Max(1, RoundTenths(TenthsOf(m))))

Archetypes == <<"core", "satellite", "experimental">>

\* buildBucketAlloc: null when capital * weight <= 0, which NaN is not.
\* allocation_percent is held in tenths: Math.round(weight * 1000) / 10.
bucketsRaw(input) ==
    LET capital == ToNumber(OrElse(Get(input, "starting_capital_usd"), Num(0)))
        w == Weights(input)
    IN  IF capital.t = "number" /\ capital.n <= 0 THEN <<>>
        ELSE [b \in 1..3 |->
                 [archetype |-> Archetypes[b],
                  allocation_percent |->
                      (2000 * w[Archetypes[b]] + w.total) \div (2 * w.total)]]

\* bucketsRaw.forEach: splits slots per bucket; no slot when splits is NaN.
allocations(input, buckets) ==
    LET m == maxPositions(preferencesApplied(input))
        splits == IF m.t = "NaN" THEN 0 ELSE Max(1, Min(m.n, 2))
    IN  [k \in 1..(splits * Len(buckets)) |->
            [archetype |-> buckets[((k - 1) \div splits) + 1].archetype,
             chain |-> OrElse(Get(input, "chain"), Str("unknown"))]]

\* Mutant: the slots handed over without the cut to maxPositions.
positionAllocationsViewUncut(input, slots) == slots

\* allocations.slice(0, maxPositions); slice takes NaN as 0.
positionAllocationsView(input, slots) ==
    LET m == maxPositions(preferencesApplied(input)) IN
    IF m.t = "NaN" THEN <<>> ELSE SubSeq(slots, 1, Min(m.n, Len(slots)))

handlePortfolioPlan(input) ==
    LET errors == validatePortfolioPlan(input)
        chain == OrElse(Get(input, "chain"), Str("unknown"))
        buckets == bucketsRaw(input)
    IN  IF chainRiskFactorThrows(chain) THEN Thrown(TypeError)
        ELSE Returned(Deliverable("portfolio_yield_allocation_plan", errors)
                      @@ [chain |-> chain,
                          starting_capital_usd |->
                              OrElse(Get(input, "starting_capital_usd"), Num(0)),
                          risk_tolerance |->
                              OrElse(Get(input, "risk_tolerance"), Str("balanced")),
                          preferences_applied |-> preferencesApplied(input),
                          buckets_view |-> buckets,
                          position_allocations_view |->
                              positionAllocationsView(input, allocations(input, buckets))])

(***************************************************************************)
(* JOB 3: execution_bundle_builder                                         *)
(***************************************************************************)
\* The errors of one element of desired_allocations; idx is zero-based.
AllocationErrors(item, idx) ==
    LET at == "desired_allocations[" \o ToString(idx) \o "]."
        path == "desired_allocations." \o ToString(idx) \o "."
    IN  PushIf(~ensureString(Get(item, "asset_in")),
               validationError(at \o "asset_in must be string", path \o "asset_in"))
        \o PushIf(~ensureString(Get(item, "asset_out")),
               validationError(at \o "asset_out must be string", path \o "asset_out"))
        \o PushIf(~ensureNumber(Get(item, "amount_in")),
               validationError(at \o "amount_in must be number", path \o "amount_in"))
        \o PushIf(~ensureString(Get(item, "venue")),
               validationError(at \o "venue must be string", path \o "venue"))

\* desired_allocations.forEach over the first n elements
RECURSIVE AllAllocationErrors(_, _)
AllAllocationErrors(a, n) ==
    IF n = 0 THEN <<>>
    ELSE AllAllocationErrors(a, n - 1) \o AllocationErrors(a[n], n - 1)

\* Reading item.asset_in of a null element raises a TypeError.
validateExecutionBundle(input) ==
    LET da == Get(input, "desired_allocations")
        head ==
            PushIf(~ensureString(Get(input, "client_agent_id")),
                   validationError("client_agent_id must be string", "client_agent_id"))
            \o PushIf(~ensureString(Get(input, "chain")),
                   validationError("chain must be string", "chain"))
        knobs ==
            PushIf(Get(input, "slippage_bps") # Undef /\ ~ensureNumber(Get(input, "slippage_bps")),
                   validationError("slippage_bps must be number when provided", "slippage_bps"))
            \o PushIf(Get(input, "deadline_seconds") # Undef
                        /\ ~ensureNumber(Get(input, "deadline_seconds")),
                   validationError("deadline_seconds must be number when provided",
                                   "deadline_seconds"))
            \o PushIf(Get(input, "prefer_batching") # Undef
                        /\ ~ensureBoolean(Get(input, "prefer_batching")),
                   validationError("prefer_batching must be boolean when provided",
                                   "prefer_batching"))
    IN  IF ~ensureArray(da)
        THEN Returned(head
                      \o <<validationError("desired_allocations must be array",
                                           "desired_allocations")>>
                      \o knobs)
        ELSE IF \E i \in 1..Len(da.a) : Nullish(da.a[i]) THEN Thrown(TypeError)
        ELSE Returned(head \o AllAllocationErrors(da.a, Len(da.a)) \o knobs)

\* inferActionType: alloc.venue.toLowerCase() and alloc.asset_out.toUpperCase()
\* raise a TypeError unless both are strings.
inferActionTypeThrows(alloc) ==
    \/ Nullish(alloc)
    \/ ~ensureString(Get(alloc, "venue"))
    \/ ~ensureString(Get(alloc, "asset_out"))

inferActionType(alloc) ==
    LET venue == toLowerCase(Get(alloc, "venue").s)
        out == toUpperCase(Get(alloc, "asset_out").s)
    IN  IF includes(venue, "lend") \/ includes(venue, "aave") \/ includes(venue, "compound")
        THEN "supply_or_borrow"
        ELSE IF includes(venue, "lp") \/ includes(out, "-LP") \/ includes(out, "/")
        THEN "add_liquidity"
        ELSE IF includes(venue, "vault") \/ includes(venue, "farm")
        THEN "vault_deposit"
        ELSE "swap"

\* v ?? d
Coalesce(v, d) == IF Nullish(v) THEN d ELSE v

\* The three knobs of the bundle.
slippageBps(input) == Coalesce(Get(input, "slippage_bps"), Num(50))
deadlineSeconds(input) == Coalesce(Get(input, "deadline_seconds"), Num(900))
preferBatching(input) ==
    IF Get(input, "prefer_batching").t = "boolean" THEN Get(input, "prefer_batching")
    ELSE Bool(TRUE)

\* One element of txs; idx is zero-based.  Of meta, the fields copied from
\* the allocation and the two knobs.
BundleTx(input, alloc, idx) ==
    [index |-> idx,
     action_type |-> inferActionType(alloc),
     meta |-> [chain |-> OrElse(Get(input, "chain"), Str("unknown")),
               venue |-> Get(alloc, "venue"),
               asset_in |-> Get(alloc, "asset_in"),
               asset_out |-> Get(alloc, "asset_out"),
               notional_estimate_usd |-> Get(alloc, "amount_in"),
               slippage_bps |-> slippageBps(input),
               deadline_seconds |-> deadlineSeconds(input)]]

\* The properties every object literal inherits from Object.prototype: acc of
\* the reduce is {}, so acc[venue] of such a venue is the inherited value.
ObjectPrototypeKeys ==
    {"constructor", "hasOwnProperty", "isPrototypeOf", "propertyIsEnumerable",
     "toLocaleString", "toString", "valueOf", "__proto__", "__defineGetter__",
     "__defineSetter__", "__lookupGetter__", "__lookupSetter__"}

\* txs.reduce over the first n transactions: acc maps a venue to the indices
\* pushed so far.
RECURSIVE tentativeBatches(_, _)
tentativeBatches(txs, n) ==
    IF n = 0 THEN [v \in {} |-> <<>>]
    ELSE LET acc == tentativeBatches(txs, n - 1)
             venue == txs[n].meta.venue.s
             batch == IF venue \in DOMAIN acc THEN acc[venue] ELSE <<>>
         IN  [v \in DOMAIN acc \cup {venue} |->
                 IF v = venue THEN batch \o <<txs[n].index>> ELSE acc[v]]

\* acc[venue] of an inherited property is truthy and has no push: a TypeError.
batchingThrows(input, txs) ==
    /\ preferBatching(input) = Bool(TRUE)
    /\ \E i \in 1..Len(txs) : txs[i].meta.venue.s \in ObjectPrototypeKeys

\* Of the plan, the strategy and the batches.
batchingPlan(input, txs) ==
    IF preferBatching(input) = Bool(TRUE)
    THEN [strategy |-> "batch_by_venue", tentative_batches |-> tentativeBatches(txs, Len(txs))]
    ELSE [strategy |-> "sequential_execution"]

handleExecutionBundle(input) ==
    LET validated == validateExecutionBundle(input)
        da == Get(input, "desired_allocations")
        desired == IF ensureArray(da) THEN da.a ELSE <<>>
        txs == [i \in 1..Len(desired) |-> BundleTx(input, desired[i], i - 1)]
    IN  IF Threw(validated) THEN validated
        \* (input.desired_allocations || []).map: only an array has map
        ELSE IF Truthy(da) /\ ~ensureArray(da) THEN Thrown(TypeError)
        ELSE IF \E i \in 1..Len(desired) : inferActionTypeThrows(desired[i])
        THEN Thrown(TypeError)
        ELSE IF batchingThrows(input, txs) THEN Thrown(TypeError)
        ELSE Returned(Deliverable("execution_bundle_builder", validated.ret)
                      @@ [chain |-> OrElse(Get(input, "chain"), Str("unknown")),
                          slippage_bps_applied |-> slippageBps(input),
                          deadline_seconds_applied |-> deadlineSeconds(input),
                          prefer_batching |-> preferBatching(input),
                          txs |-> txs,
                          batching_plan |-> batchingPlan(input, txs)])

(***************************************************************************)
(* JOB 4: position_health_monitor                                          *)
(***************************************************************************)
PositionErrors(pos, idx) ==
    LET at == "positions[" \o ToString(idx) \o "]."
        path == "positions." \o ToString(idx) \o "."
    IN  PushIf(~ensureString(Get(pos, "protocol")),
               validationError(at \o "protocol must be string", path \o "protocol"))
        \o PushIf(~ensureString(Get(pos, "pool_address")),
               validationError(at \o "pool_address must be string", path \o "pool_address"))
        \o PushIf(~ensureString(Get(pos, "position_id")),
               validationError(at \o "position_id must be string", path \o "position_id"))
        \o PushIf(~ensureNumber(Get(pos, "health_threshold")),
               validationError(at \o "health_threshold must be number",
                               path \o "health_threshold"))

RECURSIVE AllPositionErrors(_, _)
AllPositionErrors(a, n) ==
    IF n = 0 THEN <<>>
    ELSE AllPositionErrors(a, n - 1) \o PositionErrors(a[n], n - 1)

validatePositionHealth(input) ==
    LET ps == Get(input, "positions")
        head ==
            PushIf(~ensureString(Get(input, "client_agent_id")),
                   validationError("client_agent_id must be string", "client_agent_id"))
            \o PushIf(~ensureString(Get(input, "chain")),
                   validationError("chain must be string", "chain"))
        tail ==
            PushIf(~ensureString(Get(input, "notify_channel")),
                   validationError("notify_channel must be string", "notify_channel"))
            \o PushIf(~ensureNumber(Get(input, "check_frequency_minutes")),
                   validationError("check_frequency_minutes must be number",
                                   "check_frequency_minutes"))
    IN  IF ~ensureArray(ps)
        THEN Returned(head \o <<validationError("positions must be array", "positions")>> \o tail)
        ELSE IF \E i \in 1..Len(ps.a) : Nullish(ps.a[i]) THEN Thrown(TypeError)
        ELSE Returned(head \o AllPositionErrors(ps.a, Len(ps.a)) \o tail)

\* score >= y and score < y of an integer score and a value that ToNumber
\* has made a number or NaN; every comparison with NaN is false.
ScoreAtLeast(score, y) == y.t = "number" /\ 10 * score >= TenthsOf(y)
ScoreBelow(score, y) == y.t = "number" /\ 10 * score < TenthsOf(y)

\* threshold + k and threshold - k: + of a string is concatenation, and
\* every other operand is made a number.
Plus(v, k) ==
    LET n == ToNumber(IF v.t = "string" THEN Str(v.s \o ToString(k)) ELSE v) IN
    IF n.t = "NaN" THEN NaN
    ELSE IF v.t = "string" THEN n
    ELSE Tenths(TenthsOf(n) + 10 * k)
Minus(v, k) ==
    LET n == ToNumber(v) IN
    IF n.t = "NaN" THEN NaN ELSE Tenths(TenthsOf(n) - 10 * k)

\* Mutant: the upper band starts above 80, not at 80.
baseHealthAbove80(threshold) ==
    LET t == ToNumber(threshold) IN
    IF t.t = "number" /\ TenthsOf(t) > 800 THEN 72
    ELSE IF t.t = "number" /\ TenthsOf(t) >= 600 THEN 78
    ELSE 85

\* threshold >= 80 ? 72 : threshold >= 60 ? 78 : 85
baseHealth(threshold) ==
    LET t == ToNumber(threshold) IN
    IF t.t = "number" /\ TenthsOf(t) >= 800 THEN 72
    ELSE IF t.t = "number" /\ TenthsOf(t) >= 600 THEN 78
    ELSE 85

\* Mutant: the ladder without its warning rung.
severityNoWarning(score, threshold) ==
    IF ScoreAtLeast(score, Plus(threshold, 10)) THEN "info"
    ELSE IF ScoreAtLeast(score, ToNumber(threshold)) THEN "watch"
    ELSE "critical"

severity(score, threshold) ==
    IF ScoreAtLeast(score, Plus(threshold, 10)) THEN "info"
    ELSE IF ScoreAtLeast(score, ToNumber(threshold)) THEN "watch"
    ELSE IF ScoreAtLeast(score, Minus(threshold, 10)) THEN "warning"
    ELSE "critical"

BreachIssue == "Synthetic breach: health score below configured threshold."
WarningIssue == "Health score is within 10 points of threshold; risk is non-trivial."
WatchIssue == "Health score only slightly above threshold."

\* The if / else if chain that fills issues.
issues(breach, level) ==
    IF breach THEN <<BreachIssue>>
    ELSE IF level = "warning" THEN <<WarningIssue>>
    ELSE IF level = "watch" THEN <<WatchIssue>>
    ELSE <<>>

\* One element of snapshots.  recommended_actions follows issues branch by
\* branch and is left out.
Snapshot(pos, chain) ==
    LET threshold == Get(pos, "health_threshold")
        score == baseHealth(threshold)
        breach == ScoreBelow(score, ToNumber(threshold))
        level == severity(score, threshold)
    IN  [protocol |-> Get(pos, "protocol"),
         pool_address |-> Get(pos, "pool_address"),
         position_id |-> Get(pos, "position_id"),
         chain |-> chain,
         synthetic_health_score |-> score,
         configured_health_threshold |-> threshold,
         liquidation_buffer_pct |-> (IF score >= 80 THEN 30 ELSE IF score >= 70 THEN 20 ELSE 10),
         breach |-> breach,
         severity |-> level,
         issues |-> issues(breach, level)]

\* Of portfolio_summary, the three counts.
portfolioSummary(snapshots) ==
    [total_positions |-> Len(snapshots),
     breached_positions |-> Cardinality({i \in 1..Len(snapshots) : snapshots[i].breach}),
     near_threshold_positions |->
         Cardinality({i \in 1..Len(snapshots) :
                        /\ ~snapshots[i].breach
                        /\ ScoreBelow(snapshots[i].synthetic_health_score,
                                      Plus(snapshots[i].configured_health_threshold, 5))})]

handlePositionHealth(input) ==
    LET validated == validatePositionHealth(input)
        ps == Get(input, "positions")
        chain == OrElse(Get(input, "chain"), Str("unknown"))
        positions == IF ensureArray(ps) THEN ps.a ELSE <<>>
        snapshots == [i \in 1..Len(positions) |-> Snapshot(positions[i], chain)]
    IN  IF Threw(validated) THEN validated
        \* (input.positions || []).map: only an array has map
        ELSE IF Truthy(ps) /\ ~ensureArray(ps) THEN Thrown(TypeError)
        ELSE Returned(Deliverable("position_health_monitor", validated.ret)
                      @@ [chain |-> chain,
                          positions |-> snapshots,
                          portfolio_summary |-> portfolioSummary(snapshots)])

(***************************************************************************)
(* JOB 5: strategy_backtest_report                                         *)
(***************************************************************************)
validateBacktest(input) ==
    PushIf(~ensureString(Get(input, "client_agent_id")),
           validationError("client_agent_id must be string", "client_agent_id"))
    \o PushIf(~ensureString(Get(input, "chain")),
           validationError("chain must be string", "chain"))
    \o PushIf(~ensureString(Get(input, "strategy_name")),
           validationError("strategy_name must be string", "strategy_name"))
    \o PushIf(~ensureString(Get(input, "backtest_start_utc")),
           validationError("backtest_start_utc must be string", "backtest_start_utc"))
    \o PushIf(~ensureString(Get(input, "backtest_end_utc")),
           validationError("backtest_end_utc must be string", "backtest_end_utc"))
    \o PushIf(~ensureNumber(Get(input, "initial_capital_usd")),
           validationError("initial_capital_usd must be number", "initial_capital_usd"))
    \o (IF ~ensureArray(Get(input, "simulated_actions"))
        THEN <<validationError("simulated_actions must be array of strings",
                               "simulated_actions")>>
        ELSE PushIf(~EveryString(Get(input, "simulated_actions").a),
                    validationError("simulated_actions items must be strings",
                                    "simulated_actions")))

\* Date.parse of the timestamps the model uses: TRUE for the ones that are
\* dates.  new Date(v) of a number, a boolean or null is a date too.
ValidDate(v) ==
    CASE v.t = "string" -> v.s \in {"2024-01-01T00:00:00Z", "2024-01-31T00:00:00Z"}
      [] v.t \in {"number", "boolean", "null"} -> TRUE
      [] OTHER -> FALSE

\* The returned object literal of handleBacktest names sharpe_ratio_estimate,
\* best_day_return_pct, worst_day_return_pct, equity_curve and risk_commentary
\* in shorthand, and no such bindings exist (the locals are sharpeRatioEstimate,
\* ...): evaluating it raises a ReferenceError.  Before it, strategyName
\* .toLowerCase() raises for a truthy strategy_name that is no string and
\* toISOString() raises a RangeError for an invalid date.
handleBacktest(input) ==
    LET errors == validateBacktest(input)
        strategyName == OrElse(Get(input, "strategy_name"), Str("unknown"))
    IN  IF ~ensureString(strategyName) THEN Thrown(TypeError)
        ELSE IF ~ValidDate(Get(input, "backtest_start_utc"))
                \/ ~ValidDate(Get(input, "backtest_end_utc"))
        THEN Thrown(RangeError)
        ELSE Thrown(ReferenceError)

(***************************************************************************)
(* Job router                                                              *)
(***************************************************************************)
UnknownJobMessage ==
    "Unknown job type. Please ensure the job name matches one of the supported offerings."

\* `${jobName}` of the template literal in the default case: ToString.  An
\* array is its elements joined by commas, null and undefined elements empty.
RECURSIVE TemplateOf(_)
RECURSIVE JoinOf(_, _)
JoinOf(a, n) ==
    IF n = 0 THEN ""
    ELSE (IF n = 1 THEN "" ELSE JoinOf(a, n - 1) \o ",")
         \o (IF Nullish(a[n]) THEN "" ELSE TemplateOf(a[n]))
TemplateOf(v) ==
    CASE v.t = "string" -> v.s
      [] v.t = "undefined" -> "undefined"
      [] v.t = "null" -> "null"
      [] v.t = "number" -> ToString(v.n)
      [] v.t = "boolean" -> (IF v.b THEN "true" ELSE "false")
      [] v.t = "array" -> JoinOf(v.a, Len(v.a))
      [] OTHER -> "[object Object]"

\* The switch on metadata.name.
routeByName(metadata) ==
         LET jobName == Get(metadata, "name")
             requirement == OrElse(Get(metadata, "requirement"), EmptyObj)
         IN  CASE jobName = Str("yield_scan_and_ranking") -> handleYieldScan(requirement)
               [] jobName = Str("portfolio_yield_allocation_plan") ->
                      handlePortfolioPlan(requirement)
               [] jobName = Str("execution_bundle_builder") ->
                      handleExecutionBundle(requirement)
               [] jobName = Str("position_health_monitor") ->
                      handlePositionHealth(requirement)
               [] jobName = Str("strategy_backtest_report") -> handleBacktest(requirement)
               [] OTHER ->
                      Returned([job_name |-> "unknown",
                                timestamp_utc |-> "nowIso",
                                validation_passed |-> FALSE,
                                validation_errors |->
                                    <<validationError("No handler implemented for job name: "
                                                        \o TemplateOf(jobName),
                                                      "job_name")>>,
                                message |-> UnknownJobMessage])

\* Mutant: the router without its guard; reading .name of null or undefined
\* raises a TypeError.
routeJobDeliverableUnguarded(metadata) ==
    IF Nullish(metadata) THEN Thrown(TypeError) ELSE routeByName(metadata)

routeJobDeliverable(metadata) ==
    IF ~Truthy(metadata) \/ metadata.t \notin {"object", "array"}
    THEN Returned(Deliverable("unknown",
                              <<validationError("Missing job metadata", "metadata")>>))
    ELSE routeByName(metadata)

(***************************************************************************)
(* The transport (job.respond, job.deliver) and the inbound events         *)
(***************************************************************************)
MaxTasks == 2

JobIds == {1, 2}

\* What job.respond and job.deliver can reject with.
TransportErrors == {[name |-> "Error", message |-> "timeout"]}
NoError == [name |-> "", message |-> ""]

\* The state of one call on the transport.
Pending == [state |-> "pending"]
Resolved == [state |-> "resolved"]
Rejected(e) == [state |-> "rejected", error |-> e]

RespondCall(accept, reason) ==
    [op |-> "respond", accept |-> accept, reason |-> reason, result |-> Pending]
DeliverCall(payload) == [op |-> "deliver", payload |-> payload, result |-> Pending]

\* JSON.parse of the content strings the events carry.
SyntaxError == [name |-> "SyntaxError", message |-> "Unexpected token"]
JSONParse(s) ==
    CASE s = "{\"name\":\"portfolio_yield_allocation_plan\"}" ->
             Returned(Obj([name |-> Str("portfolio_yield_allocation_plan")]))
      [] s = "{\"requirement\":{}}" -> Returned(Obj([requirement |-> EmptyObj]))
      [] s = "null" -> Returned(Null)
      [] s = "7" -> Returned(Num(7))
      [] OTHER -> Thrown(SyntaxError)

\* Requirement payloads.
ValidYieldScan ==
    Obj([client_agent_id |-> Str("agent-1"), chain |-> Str("base"),
         assets |-> Arr(<<Str("USDC")>>), risk_tolerance |-> Str("balanced"),
         min_tvl_usd |-> Num(100000), lookback_hours |-> Num(24)])
ValidExecutionBundle ==
    Obj([client_agent_id |-> Str("agent-1"), chain |-> Str("base"),
         desired_allocations |->
             Arr(<<Obj([asset_in |-> Str("USDC"), asset_out |-> Str("WETH"),
                        amount_in |-> Num(500), venue |-> Str("AaveLend")])>>)])
ValidPositionHealth ==
    Obj([client_agent_id |-> Str("agent-1"), chain |-> Str("base"),
         positions |->
             Arr(<<Obj([protocol |-> Str("SafeLend"), pool_address |-> Str("0xpool"),
                        position_id |-> Str("p1"), health_threshold |-> Num(80)])>>),
         notify_channel |-> Str("telegram"), check_frequency_minutes |-> Num(15)])
ValidBacktest ==
    Obj([client_agent_id |-> Str("agent-1"), chain |-> Str("base"),
         strategy_name |-> Str("carry"), backtest_start_utc |-> Str("2024-01-01T00:00:00Z"),
         backtest_end_utc |-> Str("2024-01-31T00:00:00Z"), initial_capital_usd |-> Num(10000),
         simulated_actions |-> Arr(<<Str("enter"), Str("exit")>>)])
JobMeta(name, requirement) == Obj([name |-> Str(name), requirement |-> requirement])

KindNames ==
    {"yield_scan_and_ranking", "portfolio_yield_allocation_plan", "execution_bundle_builder",
     "position_health_monitor", "strategy_backtest_report"}

Memo(status, nextPhase, structuredContent, content) ==
    Obj([status |-> Str(status), nextPhase |-> Num(nextPhase),
         structuredContent |-> structuredContent, content |-> content])

\* The events of Spec.  Negotiation: a supported kind, the kind whose
\* computer raises, an unknown kind, structuredContent without a name, none.
NegotiationContents ==
    {JobMeta("yield_scan_and_ranking", ValidYieldScan),
     JobMeta("strategy_backtest_report", ValidBacktest),
     JobMeta("nft_mint", EmptyObj),
     Obj([requirement |-> ValidYieldScan]),
     Undef}

Memos ==
    {Memo("PENDING", 1, sc, Undef) : sc \in NegotiationContents}
    \cup {Memo("PENDING", 3, Undef, Undef),
          Memo("PENDING", 3, JobMeta("position_health_monitor", ValidPositionHealth), Undef)}
    \cup {Undef,
          Memo("COMPLETED", 1, JobMeta("yield_scan_and_ranking", ValidYieldScan), Undef),
          Memo("PENDING", 2, JobMeta("yield_scan_and_ranking", ValidYieldScan), Undef)}

\* The events of SpecResolve: one job, whose cache entry is set or not by a
\* negotiation, and delivery events with every combination of structured
\* content and content.
ResolveJobIds == {1}
ResolveContents ==
    {Undef, Obj([requirement |-> ValidYieldScan]),
     JobMeta("position_health_monitor", ValidPositionHealth)}
ResolveStrings ==
    {Undef, Str("not json"), Str("{\"name\":\"portfolio_yield_allocation_plan\"}"),
     Str("{\"requirement\":{}}"), Str("null"),
     JobMeta("execution_bundle_builder", ValidExecutionBundle)}
ResolveMemos ==
    {Memo("PENDING", 1, JobMeta("yield_scan_and_ranking", ValidYieldScan), Undef),
     Memo("PENDING", 1, Undef, Undef),
     Memo("COMPLETED", 3, Undef, Undef),
     Memo("PENDING", 2, Undef, Undef)}
    \cup {Memo("PENDING", 3, sc, c) : sc \in ResolveContents, c \in ResolveStrings}

(***************************************************************************)
(* jobMetadata: Map get / set / delete                                     *)
(***************************************************************************)
MapGet(m, k) == IF k \in DOMAIN m THEN m[k] ELSE Undef
\* Mutant: set that keeps an entry the Map already holds.
MapSetIfAbsent(m, k, v) ==
    IF k \in DOMAIN m THEN m ELSE [x \in DOMAIN m \cup {k} |-> IF x = k THEN v ELSE m[x]]
MapSet(m, k, v) == [x \in DOMAIN m \cup {k} |-> IF x = k THEN v ELSE m[x]]
MapDelete(m, k) == [x \in DOMAIN m \ {k} |-> m[x]]

(***************************************************************************)
(* onNewTask                                                               *)
(***************************************************************************)
AcceptReason == "Auto-accepting job from DeFi Yield Optimizer provider"

Task(job, memo, pc, calls, metadata, thrown) ==
    [job |-> job, memo |-> memo, pc |-> pc, calls |-> calls, metadata |-> metadata,
     thrown |-> thrown]

\* The call the handler is suspended on gets its result.
Settle(calls, result) == [calls EXCEPT ![Len(calls)].result = result]

\* `!memoToSign || memoToSign.status !== 'PENDING'`
NoPendingMemo(memo) == ~Truthy(memo) \/ Get(memo, "status") # Str("PENDING")

\* Mutant: the lookup that tries the event's structuredContent before the cache.
ResolveMetadataEventFirst(store, job, memo) ==
    LET cached == MapGet(store, job)
        structured == Get(memo, "structuredContent")
        content == Get(memo, "content")
        fromEvent == IF Truthy(structured) THEN structured ELSE cached
        parsed == JSONParse(content.s)
    IN  IF ~Truthy(fromEvent) /\ content.t = "string"
        THEN IF ~Threw(parsed) /\ Truthy(parsed.ret) /\ Truthy(Get(parsed.ret, "name"))
             THEN parsed.ret
             ELSE fromEvent
        ELSE fromEvent

\* The metadata lookup of the delivery phase.
ResolveMetadata(store, job, memo) ==
    LET cached == MapGet(store, job)
        structured == Get(memo, "structuredContent")
        content == Get(memo, "content")
        fromEvent == IF ~Truthy(cached) /\ Truthy(structured) THEN structured ELSE cached
        parsed == JSONParse(content.s)
    IN  IF ~Truthy(fromEvent) /\ content.t = "string"
        THEN IF ~Threw(parsed) /\ Truthy(parsed.ret) /\ Truthy(Get(parsed.ret, "name"))
             THEN parsed.ret
             ELSE fromEvent
        ELSE fromEvent

\* The minimal deliverable of the fallback delivery.
FallbackDeliverable(err) ==
    [job_name |-> "unknown",
     timestamp_utc |-> "nowIso",
     validation_passed |-> FALSE,
     validation_errors |->
         <<validationError("Delivery failed internally", "internal"),
           validationError(StringOf(err), "exception")>>]

\* No pending memo: the handler returns at once.
NoPending(job, memo) ==
    /\ NoPendingMemo(memo)
    /\ tasks' = Append(tasks, Task(job, memo, "returned", <<>>, Undef, NoError))
    /\ UNCHANGED jobMetadata
    /\ UNCHANGED call

\* Mutant: a negotiation that rejects an event without named content.
NegotiateRejectingUnnamed(job, memo) ==
    /\ ~NoPendingMemo(memo)
    /\ Get(memo, "nextPhase") = Num(1)
    /\ LET structured == Get(memo, "structuredContent")
           named == Truthy(structured) /\ Truthy(Get(structured, "name"))
       IN  /\ jobMetadata' = IF named THEN MapSet(jobMetadata, job, structured)
                             ELSE jobMetadata
           /\ tasks' = Append(tasks,
                  IF named
                  THEN Task(job, memo, "await_accept",
                            <<RespondCall(TRUE, AcceptReason)>>, Undef, NoError)
                  ELSE Task(job, memo, "await_reject",
                            <<RespondCall(FALSE, "Missing job name")>>, Undef, NoError))
    /\ UNCHANGED call

\* Mutant: a negotiation without named content clears the entry of the job.
NegotiateClearingUnnamed(job, memo) ==
    /\ ~NoPendingMemo(memo)
    /\ Get(memo, "nextPhase") = Num(1)
    /\ LET structured == Get(memo, "structuredContent") IN
       jobMetadata' = IF Truthy(structured) /\ Truthy(Get(structured, "name"))
                      THEN MapSet(jobMetadata, job, structured)
                      ELSE MapDelete(jobMetadata, job)
    /\ tasks' = Append(tasks, Task(job, memo, "await_accept",
                                   <<RespondCall(TRUE, AcceptReason)>>, Undef, NoError))
    /\ UNCHANGED call

\* Phase 0 -> 1 up to the await of job.respond(true, ...).
Negotiate(job, memo) ==
    /\ ~NoPendingMemo(memo)
    /\ Get(memo, "nextPhase") = Num(1)
    /\ LET structured == Get(memo, "structuredContent") IN
       jobMetadata' = IF Truthy(structured) /\ Truthy(Get(structured, "name"))
                      THEN MapSet(jobMetadata, job, structured)
                      ELSE jobMetadata
    /\ tasks' = Append(tasks, Task(job, memo, "await_accept",
                                   <<RespondCall(TRUE, AcceptReason)>>, Undef, NoError))
    /\ UNCHANGED call

\* Phase 2 -> 3 up to the await of job.deliver(deliverable); an exception
\* of the router leaves the handler, nothing encloses it.
Deliver(job, memo) ==
    /\ ~NoPendingMemo(memo)
    /\ Get(memo, "nextPhase") = Num(3)
    /\ LET metadata == ResolveMetadata(jobMetadata, job, memo)
           routed == routeJobDeliverable(metadata)
       IN  tasks' = Append(tasks,
                IF Threw(routed)
                THEN Task(job, memo, "threw", <<>>, metadata, routed.threw)
                ELSE Task(job, memo, "await_deliver", <<DeliverCall(routed.ret)>>,
                          metadata, NoError))
    /\ UNCHANGED jobMetadata
    /\ UNCHANGED call

\* Mutant: an unhandled phase that also drops the cache entry of the job.
UnhandledClearing(job, memo) ==
    /\ ~NoPendingMemo(memo)
    /\ Get(memo, "nextPhase") \notin {Num(1), Num(3)}
    /\ tasks' = Append(tasks, Task(job, memo, "returned", <<>>, Undef, NoError))
    /\ jobMetadata' = MapDelete(jobMetadata, job)
    /\ UNCHANGED call

\* Any other nextPhase is logged only.
Unhandled(job, memo) ==
    /\ ~NoPendingMemo(memo)
    /\ Get(memo, "nextPhase") \notin {Num(1), Num(3)}
    /\ tasks' = Append(tasks, Task(job, memo, "returned", <<>>, Undef, NoError))
    /\ UNCHANGED jobMetadata
    /\ UNCHANGED call

\* The transport calls onNewTask(job, memoToSign).
OnNewTask(job, memo) ==
    /\ Len(tasks) < MaxTasks
    /\ \/ NoPending(job, memo)
       \/ Negotiate(job, memo)
       \/ Deliver(job, memo)
       \/ Unhandled(job, memo)

\* job.respond(true, ...) resolves: the handler returns.
AcceptResolves(i) ==
    /\ tasks[i].pc = "await_accept"
    /\ tasks' = [tasks EXCEPT ![i].pc = "returned",
                              ![i].calls = Settle(@, Resolved)]
    /\ UNCHANGED jobMetadata
    /\ UNCHANGED call

\* Mutant: a catch block that takes back the entry the event stored.
AcceptRejectsRollingBack(i, err) ==
    /\ tasks[i].pc = "await_accept"
    /\ tasks' = [tasks EXCEPT
           ![i].pc = "await_reject",
           ![i].calls = Append(Settle(@, Rejected(err)),
                               RespondCall(FALSE, "Error during negotiation: " \o StringOf(err)))]
    /\ jobMetadata' = MapDelete(jobMetadata, tasks[i].job)
    /\ UNCHANGED call

\* Mutant: the rejection message without the cause.
AcceptRejectsNoCause(i, err) ==
    /\ tasks[i].pc = "await_accept"
    /\ tasks' = [tasks EXCEPT
           ![i].pc = "await_reject",
           ![i].calls = Append(Settle(@, Rejected(err)),
                               RespondCall(FALSE, "Error during negotiation"))]
    /\ UNCHANGED jobMetadata
    /\ UNCHANGED call

\* job.respond(true, ...) rejects: the catch block calls job.respond(false, ...).
AcceptRejects(i, err) ==
    /\ tasks[i].pc = "await_accept"
    /\ tasks' = [tasks EXCEPT
           ![i].pc = "await_reject",
           ![i].calls = Append(Settle(@, Rejected(err)),
                               RespondCall(FALSE, "Error during negotiation: " \o StringOf(err)))]
    /\ UNCHANGED jobMetadata
    /\ UNCHANGED call

\* job.respond(false, ...) resolves: the handler returns.
RejectResolves(i) ==
    /\ tasks[i].pc = "await_reject"
    /\ tasks' = [tasks EXCEPT ![i].pc = "returned",
                              ![i].calls = Settle(@, Resolved)]
    /\ UNCHANGED jobMetadata
    /\ UNCHANGED call

\* job.respond(false, ...) rejects inside the catch block: the exception
\* leaves the handler.
RejectRejects(i, err) ==
    /\ tasks[i].pc = "await_reject"
    /\ tasks' = [tasks EXCEPT ![i].pc = "threw",
                              ![i].thrown = err,
                              ![i].calls = Settle(@, Rejected(err))]
    /\ UNCHANGED jobMetadata
    /\ UNCHANGED call

\* Mutant: a resolved delivery that deletes the entry only while it is still
\* the metadata this delivery was routed with.
DeliverResolvesOwnEntry(i) ==
    /\ tasks[i].pc = "await_deliver"
    /\ tasks' = [tasks EXCEPT ![i].pc = "returned",
                              ![i].calls = Settle(@, Resolved)]
    /\ jobMetadata' = IF MapGet(jobMetadata, tasks[i].job) = tasks[i].metadata
                      THEN MapDelete(jobMetadata, tasks[i].job)
                      ELSE jobMetadata
    /\ UNCHANGED call

\* Mutant: a resolved delivery that empties the whole cache (jobMetadata.clear()).
DeliverResolvesClearAll(i) ==
    /\ tasks[i].pc = "await_deliver"
    /\ tasks' = [tasks EXCEPT ![i].pc = "returned",
                              ![i].calls = Settle(@, Resolved)]
    /\ jobMetadata' = [k \in {} |-> Undef]
    /\ UNCHANGED call

\* job.deliver(deliverable) resolves: the cache entry of the job is deleted.
DeliverResolves(i) ==
    /\ tasks[i].pc = "await_deliver"
    /\ tasks' = [tasks EXCEPT ![i].pc = "returned",
                              ![i].calls = Settle(@, Resolved)]
    /\ jobMetadata' = MapDelete(jobMetadata, tasks[i].job)
    /\ UNCHANGED call

\* Mutant: the cache entry deleted on a failed delivery too (a finally block).
DeliverRejectsClearing(i, err) ==
    /\ tasks[i].pc = "await_deliver"
    /\ tasks' = [tasks EXCEPT
           ![i].pc = "await_fallback",
           ![i].calls = Append(Settle(@, Rejected(err)),
                               DeliverCall(FallbackDeliverable(err)))]
    /\ jobMetadata' = MapDelete(jobMetadata, tasks[i].job)
    /\ UNCHANGED call

\* job.deliver(deliverable) rejects: the fallback deliverable is submitted.
DeliverRejects(i, err) ==
    /\ tasks[i].pc = "await_deliver"
    /\ tasks' = [tasks EXCEPT
           ![i].pc = "await_fallback",
           ![i].calls = Append(Settle(@, Rejected(err)),
                               DeliverCall(FallbackDeliverable(err)))]
    /\ UNCHANGED jobMetadata
    /\ UNCHANGED call

\* The fallback delivery resolves.
FallbackResolves(i) ==
    /\ tasks[i].pc = "await_fallback"
    /\ tasks' = [tasks EXCEPT ![i].pc = "returned",
                              ![i].calls = Settle(@, Resolved)]
    /\ UNCHANGED jobMetadata
    /\ UNCHANGED call

\* Mutant: a fallback without its own try / catch.
FallbackRejectsRethrows(i, err) ==
    /\ tasks[i].pc = "await_fallback"
    /\ tasks' = [tasks EXCEPT ![i].pc = "threw",
                              ![i].thrown = err,
                              ![i].calls = Settle(@, Rejected(err))]
    /\ UNCHANGED jobMetadata
    /\ UNCHANGED call

\* The fallback delivery rejects: logged only.
FallbackRejects(i, err) ==
    /\ tasks[i].pc = "await_fallback"
    /\ tasks' = [tasks EXCEPT ![i].pc = "returned",
                              ![i].calls = Settle(@, Rejected(err))]
    /\ UNCHANGED jobMetadata
    /\ UNCHANGED call

\* No direct call: the functions run inside onNewTask only.
NoCall == [fn |-> "", arg |-> Undef, out |-> [called |-> FALSE]]

Init ==
    /\ jobMetadata = [k \in {} |-> Undef]
    /\ tasks = <<>>
    /\ call = NoCall

\* One step of the event loop: an event arrives, or a call on the transport
\* that a handler awaits is settled.
Step(jobs, memos, errors) ==
    \/ \E job \in jobs, memo \in memos : OnNewTask(job, memo)
    \/ \E i \in 1..Len(tasks) :
          \/ AcceptResolves(i)
          \/ RejectResolves(i)
          \/ DeliverResolves(i)
          \/ FallbackResolves(i)
          \/ \E err \in errors :
                \/ AcceptRejects(i, err)
                \/ RejectRejects(i, err)
                \/ DeliverRejects(i, err)
                \/ FallbackRejects(i, err)

Next == Step(JobIds, Memos, TransportErrors)

Spec == Init /\ [][Next]_vars

NextResolve == Step(ResolveJobIds, ResolveMemos, TransportErrors)

SpecResolve == Init /\ [][NextResolve]_vars

\* The events of SpecRenegotiate: one job that sees up to MaxEvents events,
\* negotiations with named content, with content that has no name and
\* without content, deliveries with and without content of their own, and
\* the events the handler does not act on.
MaxEvents == 3
RenegotiateMemos ==
    {Memo("PENDING", 1, JobMeta("yield_scan_and_ranking", ValidYieldScan), Undef),
     Memo("PENDING", 1, Obj([requirement |-> ValidYieldScan]), Undef),
     Memo("PENDING", 1, Undef, Undef),
     Memo("PENDING", 3, Undef, Undef),
     Memo("PENDING", 3, JobMeta("position_health_monitor", ValidPositionHealth), Undef),
     Memo("PENDING", 2, Undef, Undef),
     Undef}

NextRenegotiate ==
    \/ \E memo \in RenegotiateMemos :
          /\ Len(tasks) < MaxEvents
          /\ \/ NoPending(1, memo)
             \/ Negotiate(1, memo)
             \/ Deliver(1, memo)
             \/ Unhandled(1, memo)
    \/ \E i \in 1..Len(tasks) :
          \/ AcceptResolves(i)
          \/ RejectResolves(i)
          \/ DeliverResolves(i)
          \/ FallbackResolves(i)
          \/ \E err \in TransportErrors :
                \/ AcceptRejects(i, err)
                \/ RejectRejects(i, err)
                \/ DeliverRejects(i, err)
                \/ FallbackRejects(i, err)

SpecRenegotiate == Init /\ [][NextRenegotiate]_vars

(***************************************************************************)
(* The functions called on their own                                       *)
(*                                                                         *)
(* The router, the computers and the validators are functions of their     *)
(* argument.  A specification of this section starts with one call chosen  *)
(* from a set of arguments and its only step runs the function.            *)
(***************************************************************************)
NotCalled == [called |-> FALSE]
Call(fn, arg) == [fn |-> fn, arg |-> arg, out |-> NotCalled]
Called(fn) == call.fn = fn /\ call.out # NotCalled

\* The pending call is a call of fn and ends with result.
Run(fn, result) ==
    /\ call.fn = fn
    /\ call.out = NotCalled
    /\ call' = [call EXCEPT !.out = result]
    /\ UNCHANGED <<jobMetadata, tasks>>

RunRouter == Run("routeJobDeliverable", routeJobDeliverable(call.arg))

\* The metadata values of SpecRouter: none, values that are no objects,
\* arrays, and objects with or without a name and a requirement.
RouterNames ==
    {Undef, Null, Num(1), Bool(TRUE), Str(""), Str("nft_mint"),
     Str("YIELD_SCAN_AND_RANKING"), Str("yield_scan_and_ranking "),
     Arr(<<Str("yield_scan_and_ranking")>>), Obj([name |-> Str("strategy_backtest_report")])}
    \cup {Str(k) : k \in KindNames}
RouterRequirements == {Undef, Null, Num(3), EmptyObj, ValidYieldScan, ValidBacktest}
RouterInputs ==
    {Undef, Null, Num(0), Num(7), Bool(FALSE), Bool(TRUE), Str(""),
     Str("yield_scan_and_ranking"), Arr(<<>>),
     Arr(<<Str("yield_scan_and_ranking"), ValidYieldScan>>)}
    \cup {Obj([name |-> n, requirement |-> r]) : n \in RouterNames, r \in RouterRequirements}
    \cup {Obj([requirement |-> r]) : r \in RouterRequirements}

InitRouter ==
    /\ jobMetadata = [k \in {} |-> Undef]
    /\ tasks = <<>>
    /\ call \in {Call("routeJobDeliverable", m) : m \in RouterInputs}

SpecRouter == InitRouter /\ [][RunRouter]_vars

\* The computers and the validators, by job kind.
ComputerOf ==
    [yield_scan_and_ranking |-> "handleYieldScan",
     portfolio_yield_allocation_plan |-> "handlePortfolioPlan",
     execution_bundle_builder |-> "handleExecutionBundle",
     position_health_monitor |-> "handlePositionHealth",
     strategy_backtest_report |-> "handleBacktest"]
ValidatorOf ==
    [yield_scan_and_ranking |-> "validateYieldScan",
     portfolio_yield_allocation_plan |-> "validatePortfolioPlan",
     execution_bundle_builder |-> "validateExecutionBundle",
     position_health_monitor |-> "validatePositionHealth",
     strategy_backtest_report |-> "validateBacktest"]

RunYieldScan == Run("handleYieldScan", handleYieldScan(call.arg))
RunPortfolioPlan == Run("handlePortfolioPlan", handlePortfolioPlan(call.arg))
RunExecutionBundle == Run("handleExecutionBundle", handleExecutionBundle(call.arg))
RunPositionHealth == Run("handlePositionHealth", handlePositionHealth(call.arg))
RunBacktest == Run("handleBacktest", handleBacktest(call.arg))

RunValidateYieldScan == Run("validateYieldScan", Returned(validateYieldScan(call.arg)))
RunValidatePortfolioPlan ==
    Run("validatePortfolioPlan", Returned(validatePortfolioPlan(call.arg)))
RunValidateExecutionBundle == Run("validateExecutionBundle", validateExecutionBundle(call.arg))
RunValidatePositionHealth == Run("validatePositionHealth", validatePositionHealth(call.arg))
RunValidateBacktest == Run("validateBacktest", Returned(validateBacktest(call.arg)))

\* Requirement objects: every field takes its valid value, is absent, or
\* holds a value of another type; the array fields also hold arrays with
\* elements that are incomplete, of another type, or null.
Absent == [t |-> "absent"]
Requirement(fields) ==
    Obj([f \in {g \in DOMAIN fields : fields[g] # Absent} |-> fields[f]])
OrBad(v, bad) == {v, Absent, bad}

ValidAllocation ==
    Obj([asset_in |-> Str("USDC"), asset_out |-> Str("WETH"),
         amount_in |-> Num(500), venue |-> Str("AaveLend")])
ValidPosition ==
    Obj([protocol |-> Str("SafeLend"), pool_address |-> Str("0xpool"),
         position_id |-> Str("p1"), health_threshold |-> Num(80)])
ValidPreferences ==
    Obj([allow_leverage |-> Bool(FALSE), allow_lockups |-> Bool(TRUE), max_positions |-> Num(3)])

YieldScanRequirements ==
    {Requirement([client_agent_id |-> a, chain |-> c, assets |-> s, risk_tolerance |-> r,
                  min_tvl_usd |-> m, lookback_hours |-> l]) :
        a \in OrBad(Str("agent-1"), Num(5)),
        c \in OrBad(Str("base"), Num(5)),
        s \in OrBad(Arr(<<Str("USDC"), Str("WETH")>>), Str("USDC"))
               \cup {Arr(<<Str("USDC"), Num(5)>>)},
        r \in OrBad(Str("balanced"), Num(5)),
        m \in OrBad(Num(100000), Str("1e5")),
        l \in OrBad(Num(24), Str("24"))}

PortfolioPlanRequirements ==
    {Requirement([client_agent_id |-> a, chain |-> c, starting_capital_usd |-> k,
                  risk_tolerance |-> r, target_horizon_days |-> h, preferences |-> p]) :
        a \in OrBad(Str("agent-1"), Num(5)),
        c \in OrBad(Str("base"), Num(5)),
        k \in OrBad(Num(10000), Str("10k")),
        r \in OrBad(Str("balanced"), Num(5)),
        h \in OrBad(Num(30), Str("30")),
        p \in OrBad(ValidPreferences, Str("none"))
               \cup {Obj([allow_leverage |-> Bool(FALSE), max_positions |-> Str("3")])}}

ExecutionBundleRequirements ==
    {Requirement([client_agent_id |-> a, chain |-> c, desired_allocations |-> d,
                  slippage_bps |-> s, deadline_seconds |-> t, prefer_batching |-> b]) :
        a \in OrBad(Str("agent-1"), Num(5)),
        c \in OrBad(Str("base"), Num(5)),
        d \in OrBad(Arr(<<ValidAllocation>>), Str("all"))
               \cup {Arr(<<>>),
                     Arr(<<ValidAllocation,
                           Obj([asset_in |-> Str("USDC"), asset_out |-> Str("WETH"),
                                amount_in |-> Num(500)])>>),
                     Arr(<<Obj([asset_in |-> Str("USDC"), asset_out |-> Num(5),
                                amount_in |-> Num(500), venue |-> Str("AaveLend")])>>),
                     Arr(<<Num(5)>>),
                     Arr(<<ValidAllocation, Null>>)},
        s \in OrBad(Num(30), Str("low")),
        t \in OrBad(Num(600), Str("soon")),
        b \in OrBad(Bool(FALSE), Str("yes"))}

PositionHealthRequirements ==
    {Requirement([client_agent_id |-> a, chain |-> c, positions |-> p,
                  notify_channel |-> n, check_frequency_minutes |-> m]) :
        a \in OrBad(Str("agent-1"), Num(5)),
        c \in OrBad(Str("base"), Num(5)),
        p \in OrBad(Arr(<<ValidPosition>>), Str("all"))
               \cup {Arr(<<>>),
                     Arr(<<Obj([protocol |-> Str("SafeLend"), pool_address |-> Str("0xpool"),
                                position_id |-> Num(1)])>>),
                     Arr(<<Str("p1")>>),
                     Arr(<<Null, ValidPosition>>)},
        n \in OrBad(Str("telegram"), Num(5)),
        m \in OrBad(Num(15), Str("15"))}

BacktestRequirements ==
    {Requirement([client_agent_id |-> a, chain |-> c, strategy_name |-> n,
                  backtest_start_utc |-> b, backtest_end_utc |-> e,
                  initial_capital_usd |-> k, simulated_actions |-> x]) :
        a \in OrBad(Str("agent-1"), Num(5)),
        c \in OrBad(Str("base"), Num(5)),
        n \in OrBad(Str("carry"), Num(5)),
        b \in OrBad(Str("2024-01-01T00:00:00Z"), Num(5)) \cup {Str("not a date")},
        e \in OrBad(Str("2024-01-31T00:00:00Z"), Str("not a date")),
        k \in OrBad(Num(10000), Str("10k")),
        x \in OrBad(Arr(<<Str("enter"), Str("exit")>>), Arr(<<Num(5)>>))}

RequirementsOf ==
    [yield_scan_and_ranking |-> YieldScanRequirements,
     portfolio_yield_allocation_plan |-> PortfolioPlanRequirements,
     execution_bundle_builder |-> ExecutionBundleRequirements,
     position_health_monitor |-> PositionHealthRequirements,
     strategy_backtest_report |-> BacktestRequirements]

InitComputers ==
    /\ jobMetadata = [k \in {} |-> Undef]
    /\ tasks = <<>>
    /\ \E kind \in KindNames : call \in {Call(ComputerOf[kind], r) : r \in RequirementsOf[kind]}

NextComputers ==
    \/ RunYieldScan
    \/ RunPortfolioPlan
    \/ RunExecutionBundle
    \/ RunPositionHealth
    \/ RunBacktest

SpecComputers == InitComputers /\ [][NextComputers]_vars

InitValidators ==
    /\ jobMetadata = [k \in {} |-> Undef]
    /\ tasks = <<>>
    /\ \E kind \in KindNames : call \in {Call(ValidatorOf[kind], r) : r \in RequirementsOf[kind]}

NextValidators ==
    \/ RunValidateYieldScan
    \/ RunValidatePortfolioPlan
    \/ RunValidateExecutionBundle
    \/ RunValidatePositionHealth
    \/ RunValidateBacktest

SpecValidators == InitValidators /\ [][NextValidators]_vars

\* The requirements of SpecYieldScan: lists of up to MaxAssets symbols of
\* the four asset types, chains of the three risk factors, every risk
\* tolerance, and minimum TVLs below and above the floor, absent and no
\* number.
MaxAssets == 2
AssetSymbols == {Str("USDC"), Str("weth"), Str("ETH/USDC-LP"), Str("PEPE")}
AssetLists == UNION {[1..n -> AssetSymbols] : n \in 0..MaxAssets}
ScanChains == {Str("ethereum"), Str("Arbitrum-Mainnet"), Str("Base"), Str("solana"), Absent}
RiskTolerances ==
    {Str("conservative"), Str("balanced"), Str("aggressive"), Str("yolo"), Absent}
MinTvls == {Num(0), Num(-5), Num(100000), Num(50000000), Str("1e5"), Str("lots"), Absent}
ScanRequirements ==
    {Requirement([client_agent_id |-> Str("agent-1"), chain |-> c, assets |-> Arr(a),
                  risk_tolerance |-> r, min_tvl_usd |-> m, lookback_hours |-> Num(24)]) :
        c \in ScanChains, a \in AssetLists, r \in RiskTolerances, m \in MinTvls}

InitYieldScan ==
    /\ jobMetadata = [k \in {} |-> Undef]
    /\ tasks = <<>>
    /\ call \in {Call("handleYieldScan", r) : r \in ScanRequirements}

SpecYieldScan == InitYieldScan /\ [][RunYieldScan]_vars

\* The requirements of SpecPortfolioPlan: every risk tolerance, preferences
\* absent or with allow_lockups true, false or absent and max_positions
\* negative, zero, fractional, positive, a string or absent, and capitals
\* negative, zero, positive, a string or absent.
PositionLimits ==
    {Num(-2), Num(0), Num(1), Num(2), Num(3), Num(7), Tenths(-5), Tenths(4), Tenths(15),
     Tenths(25), Str("many"), Absent}
PlanPreferences ==
    {Absent}
    \cup {Requirement([allow_leverage |-> Bool(FALSE), allow_lockups |-> l,
                       max_positions |-> m]) :
              l \in {Bool(TRUE), Bool(FALSE), Absent}, m \in PositionLimits}
Capitals == {Num(-100), Num(0), Num(1), Num(10000), Str("10k"), Absent}
PlanRequirements ==
    {Requirement([client_agent_id |-> Str("agent-1"), chain |-> c,
                  starting_capital_usd |-> k, risk_tolerance |-> r,
                  target_horizon_days |-> Num(30), preferences |-> p]) :
        c \in {Str("Base"), Absent}, k \in Capitals, r \in RiskTolerances,
        p \in PlanPreferences}

InitPortfolioPlan ==
    /\ jobMetadata = [k \in {} |-> Undef]
    /\ tasks = <<>>
    /\ call \in {Call("handlePortfolioPlan", r) : r \in PlanRequirements}

SpecPortfolioPlan == InitPortfolioPlan /\ [][RunPortfolioPlan]_vars

\* The requirements of SpecExecutionBundle: up to MaxAllocations allocations
\* on venues that repeat, differ in case only, are empty or carry the name of
\* an inherited property, with prefer_batching true, false, absent or no
\* boolean.
MaxAllocations == 3
Venues == {Str("AaveLend"), Str("aavelend"), Str("UniLP"), Str(""), Str("constructor")}
AllocationOn(venue) ==
    Obj([asset_in |-> Str("USDC"), asset_out |-> Str("WETH"),
         amount_in |-> Num(500), venue |-> venue])
AllocationLists == UNION {[1..n -> {AllocationOn(v) : v \in Venues}] : n \in 0..MaxAllocations}
BundleRequirements ==
    {Requirement([client_agent_id |-> Str("agent-1"), chain |-> Str("base"),
                  desired_allocations |-> Arr(d), prefer_batching |-> b]) :
        d \in AllocationLists, b \in {Bool(TRUE), Bool(FALSE), Str("yes"), Absent}}

InitExecutionBundle ==
    /\ jobMetadata = [k \in {} |-> Undef]
    /\ tasks = <<>>
    /\ call \in {Call("handleExecutionBundle", r) : r \in BundleRequirements}

SpecExecutionBundle == InitExecutionBundle /\ [][RunExecutionBundle]_vars

\* The requirements of SpecPositionHealth: up to MaxPositions positions with
\* thresholds on both sides of 60, 78 and 80 and of every rung of the
\* severity ladder, whole and fractional, negative, null or absent.
MaxPositions == 2
Thresholds ==
    {Num(-10), Num(0), Tenths(595), Num(60), Num(68), Tenths(685), Num(70), Num(75),
     Num(78), Tenths(781), Tenths(785), Num(79), Tenths(799), Num(80), Num(82),
     Tenths(825), Num(90), Num(100), Null, Absent}
PositionWith(threshold) ==
    Requirement([protocol |-> Str("SafeLend"), pool_address |-> Str("0xpool"),
                 position_id |-> Str("p1"), health_threshold |-> threshold])
PositionLists == UNION {[1..n -> {PositionWith(t) : t \in Thresholds}] : n \in 0..MaxPositions}
HealthRequirements ==
    {Requirement([client_agent_id |-> Str("agent-1"), chain |-> Str("base"),
                  positions |-> Arr(p), notify_channel |-> Str("telegram"),
                  check_frequency_minutes |-> Num(15)]) :
        p \in PositionLists}

InitPositionHealth ==
    /\ jobMetadata = [k \in {} |-> Undef]
    /\ tasks = <<>>
    /\ call \in {Call("handlePositionHealth", r) : r \in HealthRequirements}

SpecPositionHealth == InitPositionHealth /\ [][RunPositionHealth]_vars

\* The requirements of SpecBacktest: the 30-day window, strategy names with
\* and without the keywords the simulator looks for, up to MaxActions
\* simulated actions and capitals zero, positive or absent.
MaxActions == 10
StrategyNames ==
    {Str("carry"), Str("Basis Carry v2"), Str("degen-loop"), Str("Leveraged staking"),
     Str("delta-neutral carry"), Str("market-neutral LP")}
ActionLists == {[i \in 1..n |-> Str("rebalance")] : n \in 0..MaxActions}
BacktestCapitals == {Num(10000), Num(1), Num(0), Absent}
SimulatorRequirements ==
    {Requirement([client_agent_id |-> Str("agent-1"), chain |-> Str("base"),
                  strategy_name |-> n, backtest_start_utc |-> Str("2024-01-01T00:00:00Z"),
                  backtest_end_utc |-> Str("2024-01-31T00:00:00Z"),
                  initial_capital_usd |-> k, simulated_actions |-> Arr(x)]) :
        n \in StrategyNames, k \in BacktestCapitals, x \in ActionLists}

InitBacktest ==
    /\ jobMetadata = [k \in {} |-> Undef]
    /\ tasks = <<>>
    /\ call \in {Call("handleBacktest", r) : r \in SimulatorRequirements}

SpecBacktest == InitBacktest /\ [][RunBacktest]_vars

(***************************************************************************)
(* Vocabulary of the properties                                            *)
(***************************************************************************)
IsNegotiation(t) == ~NoPendingMemo(t.memo) /\ Get(t.memo, "nextPhase") = Num(1)
IsDelivery(t) == ~NoPendingMemo(t.memo) /\ Get(t.memo, "nextPhase") = Num(3)
Structured(t) == Get(t.memo, "structuredContent")
HasName(v) == Truthy(v) /\ Truthy(Get(v, "name"))
NamesKind(v) == HasName(v) /\ Get(v, "name").t = "string" /\ Get(v, "name").s \in KindNames
CallsOf(t, op) == {k \in 1..Len(t.calls) : t.calls[k].op = op}
AcceptCalls(t) == {k \in CallsOf(t, "respond") : t.calls[k].accept}
RejectCalls(t) == {k \in CallsOf(t, "respond") : ~t.calls[k].accept}
\* the tasks of a job, by index
TasksOf(job) == {i \in 1..Len(tasks) : tasks[i].job = job}
\* this step is the arrival of an event
Arrives == Len(tasks') = Len(tasks) + 1
Arrived == tasks'[Len(tasks')]

(***************************************************************************)
(* C1.  End to end, for each of the five job kinds: a negotiation event    *)
(* naming the kind calls respond(true) and, while it is the only event of  *)
(* its job, leaves its content in the cache; a delivery event that is the  *)
(* next event of that job resolves the cached content and calls deliver    *)
(* with a deliverable whose job_name is the kind; when that call has       *)
(* resolved and no later event of the job arrived, the cache has no entry  *)
(* for the job.                                                            *)
(***************************************************************************)
C1_EndToEnd ==
    \A i \in 1..Len(tasks) :
        LET t == tasks[i] IN
        (IsNegotiation(t) /\ NamesKind(Structured(t)) /\ TasksOf(t.job) \cap 1..i = {i}) =>
            /\ AcceptCalls(t) # {}
            /\ TasksOf(t.job) = {i} => MapGet(jobMetadata, t.job) = Structured(t)
            /\ \A k \in TasksOf(t.job) :
                   (IsDelivery(tasks[k]) /\ TasksOf(t.job) \cap 1..k = {i, k}) =>
                       /\ tasks[k].metadata = Structured(t)
                       /\ tasks[k].calls # <<>>
                       /\ tasks[k].calls[1].op = "deliver"
                       /\ tasks[k].calls[1].payload.job_name = Get(Structured(t), "name").s
                       /\ (tasks[k].calls[1].result = Resolved /\ TasksOf(t.job) = {i, k})
                              => t.job \notin DOMAIN jobMetadata

(***************************************************************************)
(* C2.  Every delivery event (PENDING, nextPhase 3) makes at least one     *)
(* deliver call, whatever metadata it resolves.                            *)
(***************************************************************************)
C2_AlwaysDelivers ==
    \A i \in 1..Len(tasks) : IsDelivery(tasks[i]) => CallsOf(tasks[i], "deliver") # {}

(***************************************************************************)
(* C3.  The metadata a delivery event hands to the router is the cache     *)
(* entry of the job if there is one; else the event's structuredContent    *)
(* if it is truthy; else the parsed content string if it parses to a       *)
(* value with a name; else nothing.  An unparsable content string gives    *)
(* no metadata and the handler goes on to deliver.                         *)
(***************************************************************************)
C3_LookupOrder ==
    [][Arrives /\ IsDelivery(Arrived) =>
        LET t == Arrived
            cached == t.job \in DOMAIN jobMetadata
            structured == Structured(t)
            content == Get(t.memo, "content")
        IN  /\ cached => t.metadata = jobMetadata[t.job]
            /\ (~cached /\ Truthy(structured)) => t.metadata = structured
            /\ (~cached /\ ~Truthy(structured) /\ content.t = "string") =>
                   /\ Threw(JSONParse(content.s)) =>
                          (t.metadata = Undef /\ t.pc = "await_deliver")
                   /\ (~Threw(JSONParse(content.s)) /\ HasName(JSONParse(content.s).ret)) =>
                          t.metadata = JSONParse(content.s).ret
                   /\ (~Threw(JSONParse(content.s)) /\ ~HasName(JSONParse(content.s).ret)) =>
                          t.metadata = Undef
            /\ (~cached /\ ~Truthy(structured) /\ content.t # "string") => t.metadata = Undef
    ]_vars

\* A delivery event carrying both a named structuredContent and a parsable
\* content string was served from the cache entry of an earlier negotiation.
C3_Witness ==
    \E i \in 1..Len(tasks) :
        /\ IsDelivery(tasks[i])
        /\ HasName(Structured(tasks[i]))
        /\ Get(tasks[i].memo, "content") = Str("{\"name\":\"portfolio_yield_allocation_plan\"}")
        /\ tasks[i].metadata = JobMeta("yield_scan_and_ranking", ValidYieldScan)
        /\ tasks[i].calls # <<>>
        /\ tasks[i].calls[1].payload.job_name = "yield_scan_and_ranking"

(***************************************************************************)
(* C4.  A delivery event makes at most two deliver calls.  When the first  *)
(* is rejected the handler makes exactly one more, with the minimal        *)
(* deliverable (job_name "unknown", validation_passed false); when that    *)
(* one is rejected too the handler returns normally with no further call;  *)
(* when the first resolves it stays the only one.                          *)
(***************************************************************************)
C4_OneFallback ==
    \A i \in 1..Len(tasks) :
        LET t == tasks[i] IN
        IsDelivery(t) =>
            /\ Len(t.calls) <= 2
            /\ CallsOf(t, "deliver") = 1..Len(t.calls)
            /\ (t.calls # <<>> /\ t.calls[1].result.state = "rejected") =>
                   /\ Len(t.calls) = 2
                   /\ t.calls[2].payload.job_name = "unknown"
                   /\ t.calls[2].payload.validation_passed = FALSE
                   /\ t.calls[2].result.state = "rejected" => t.pc = "returned"
            /\ (t.calls # <<>> /\ t.calls[1].result.state = "resolved") =>
                   (Len(t.calls) = 1 /\ t.pc = "returned")

\* Both the delivery and its fallback were rejected and the handler returned.
C4_Witness ==
    \E i \in 1..Len(tasks) :
        /\ IsDelivery(tasks[i])
        /\ Len(tasks[i].calls) = 2
        /\ tasks[i].calls[1].result.state = "rejected"
        /\ tasks[i].calls[2].result.state = "rejected"
        /\ tasks[i].pc = "returned"

(***************************************************************************)
(* C5.  The cache entry of a job disappears in exactly one kind of step:   *)
(* the first deliver call of a delivery event of that job resolves, and    *)
(* that step always removes it.  A rejected first deliver and the          *)
(* settling of the fallback leave the cache as it is.  The value of an     *)
(* entry changes only when a negotiation event of the same job with named  *)
(* content arrives, so the entry of a job that gets no further event stays *)
(* as it is.                                                               *)
(***************************************************************************)
C5_EntryLifetime ==
    [][\A job \in JobIds :
        LET delivered ==
                \E i \in TasksOf(job) :
                    /\ tasks[i].pc = "await_deliver"
                    /\ tasks'[i].pc = "returned"
                    /\ tasks'[i].calls[1].result = Resolved
            renegotiated ==
                /\ Arrives
                /\ Arrived.job = job
                /\ IsNegotiation(Arrived)
                /\ HasName(Structured(Arrived))
        IN  /\ (job \in DOMAIN jobMetadata /\ job \notin DOMAIN jobMetadata') => delivered
            /\ delivered => job \notin DOMAIN jobMetadata'
            /\ (job \in DOMAIN jobMetadata /\ job \in DOMAIN jobMetadata'
                    /\ jobMetadata'[job] # jobMetadata[job]) => renegotiated
            /\ (\E i \in 1..Len(tasks) :
                    /\ tasks[i].pc \in {"await_deliver", "await_fallback"}
                    /\ tasks'[i].pc # tasks[i].pc
                    /\ tasks'[i].calls[1].result.state = "rejected")
                 => jobMetadata' = jobMetadata
    ]_vars

\* The first delivery of a job was rejected, its fallback resolved, and the
\* entry of the job is still in the cache.
C5_Witness ==
    \E i \in 1..Len(tasks) :
        /\ IsDelivery(tasks[i])
        /\ Len(tasks[i].calls) = 2
        /\ tasks[i].calls[1].result.state = "rejected"
        /\ tasks[i].calls[2].result = Resolved
        /\ tasks[i].job \in DOMAIN jobMetadata
        /\ tasks[i].metadata = jobMetadata[tasks[i].job]

(***************************************************************************)
(* C6.  When respond(true, ...) of a negotiation event is rejected with    *)
(* an error e, the handler calls respond(false, m) exactly once, with      *)
(* m = "Error during negotiation: " followed by String(e), and it makes    *)
(* no deliver call.                                                        *)
(***************************************************************************)
C6_RejectsWithCause ==
    \A i \in 1..Len(tasks) :
        LET t == tasks[i] IN
        (IsNegotiation(t) /\ t.calls[1].result.state = "rejected") =>
            /\ RejectCalls(t) = {2}
            /\ Len(t.calls) = 2
            /\ t.calls[2].reason =
                   "Error during negotiation: " \o StringOf(t.calls[1].result.error)
            /\ CallsOf(t, "deliver") = {}

\* An acceptance was rejected by the transport and the rejection went through.
C6_Witness ==
    \E i \in 1..Len(tasks) :
        /\ IsNegotiation(tasks[i])
        /\ tasks[i].calls[1].accept
        /\ tasks[i].calls[1].result.state = "rejected"
        /\ Len(tasks[i].calls) = 2
        /\ tasks[i].calls[2].result = Resolved
        /\ tasks[i].pc = "returned"

(***************************************************************************)
(* C7.  The handling of a negotiation event never ends with an exception   *)
(* leaving the handler, whatever the respond calls do.                     *)
(***************************************************************************)
C7_NegotiationNeverThrows ==
    \A i \in 1..Len(tasks) : IsNegotiation(tasks[i]) => tasks[i].pc # "threw"

(***************************************************************************)
(* C8.  Every negotiation event, whatever its structuredContent, first     *)
(* calls respond(true, ...); it makes at most one such call, and a         *)
(* respond(false, ...) call comes only after that call was rejected.       *)
(***************************************************************************)
C8_AcceptsFirst ==
    \A i \in 1..Len(tasks) :
        LET t == tasks[i] IN
        IsNegotiation(t) =>
            /\ t.calls # <<>>
            /\ AcceptCalls(t) = {1}
            /\ RejectCalls(t) # {} => t.calls[1].result.state = "rejected"

\* A negotiation without structuredContent and one naming an unknown kind
\* were both answered with respond(true).
C8_Witness ==
    \E i, k \in 1..Len(tasks) :
        /\ IsNegotiation(tasks[i])
        /\ Structured(tasks[i]) = Undef
        /\ tasks[i].calls[1].accept
        /\ IsNegotiation(tasks[k])
        /\ Structured(tasks[k]) = JobMeta("nft_mint", EmptyObj)
        /\ tasks[k].calls[1].accept
        /\ tasks[k].calls[1].result = Resolved

(***************************************************************************)
(* C9.  An event that is missing, not PENDING, or whose nextPhase is       *)
(* neither 1 nor 3 changes nothing: the cache stays as it is and the       *)
(* handler returns without a respond or deliver call.                      *)
(***************************************************************************)
C9_NoOp ==
    [][(Arrives /\ ~IsNegotiation(Arrived) /\ ~IsDelivery(Arrived)) =>
          /\ jobMetadata' = jobMetadata
          /\ Arrived.calls = <<>>
          /\ Arrived.pc = "returned"
    ]_vars

\* A PENDING memo of another phase was ignored while the negotiated entry
\* of its job stayed in the cache.
C9_Witness ==
    /\ Len(tasks) = 2
    /\ IsNegotiation(tasks[1])
    /\ tasks[2].job = tasks[1].job
    /\ Get(tasks[2].memo, "nextPhase") = Num(2)
    /\ Get(tasks[2].memo, "status") = Str("PENDING")
    /\ tasks[2].calls = <<>>
    /\ tasks[2].pc = "returned"
    /\ MapGet(jobMetadata, tasks[1].job) = Structured(tasks[1])
    /\ HasName(Structured(tasks[1]))

(***************************************************************************)
(* C10.  The cache holds one value per job id, and that value is the       *)
(* structuredContent of the latest negotiation event of the job that       *)
(* carried a name: a later negotiation overwrites an earlier one.          *)
(***************************************************************************)
C10_LatestNegotiationWins ==
    \A job \in DOMAIN jobMetadata :
        LET named == {i \in TasksOf(job) :
                         IsNegotiation(tasks[i]) /\ HasName(Structured(tasks[i]))}
        IN  /\ job \in JobIds
            /\ named # {}
            /\ jobMetadata[job] =
                   Structured(tasks[CHOOSE i \in named : \A k \in named : k <= i])

\* Two negotiations of one job carried different named contents and the
\* cache holds the later one.
C10_Witness ==
    \E i, k \in 1..Len(tasks) :
        /\ i < k
        /\ tasks[i].job = tasks[k].job
        /\ IsNegotiation(tasks[i]) /\ HasName(Structured(tasks[i]))
        /\ IsNegotiation(tasks[k]) /\ HasName(Structured(tasks[k]))
        /\ Structured(tasks[i]) # Structured(tasks[k])
        /\ MapGet(jobMetadata, tasks[k].job) = Structured(tasks[k])

(***************************************************************************)
(* C11.  With handlers of different jobs interleaved at their await        *)
(* points, a step changes the cache entry of a job (adds, replaces or      *)
(* removes it) only when it is a step of a handler of that same job; and   *)
(* the metadata a delivery event hands to the router is the cache entry of *)
(* its own job or, without one, what its own event carries, never the      *)
(* entry of another job; the deliverable it submits is the router's result *)
(* for that metadata.                                                      *)
(***************************************************************************)
C11_JobIsolation ==
    [][/\ \A job \in JobIds :
              (\/ (job \in DOMAIN jobMetadata) # (job \in DOMAIN jobMetadata')
               \/ MapGet(jobMetadata, job) # MapGet(jobMetadata', job))
              => \/ Arrives /\ Arrived.job = job
                 \/ \E i \in TasksOf(job) : tasks'[i] # tasks[i]
       /\ (Arrives /\ IsDelivery(Arrived)) =>
              LET t == Arrived IN
              /\ t.job \in DOMAIN jobMetadata => t.metadata = jobMetadata[t.job]
              /\ t.job \notin DOMAIN jobMetadata =>
                     t.metadata = IF Truthy(Structured(t)) THEN Structured(t) ELSE Undef
              /\ t.calls # <<>> => Returned(t.calls[1].payload) = routeJobDeliverable(t.metadata)
    ]_vars

\* While the negotiation of one job is still suspended on respond, a
\* delivery of another job was computed from its own event and resolved,
\* and the entry of the first job is still in the cache.
C11_Witness ==
    \E i, k \in 1..Len(tasks) :
        /\ tasks[i].job # tasks[k].job
        /\ IsNegotiation(tasks[i]) /\ HasName(Structured(tasks[i]))
        /\ tasks[i].pc = "await_accept"
        /\ MapGet(jobMetadata, tasks[i].job) = Structured(tasks[i])
        /\ IsDelivery(tasks[k])
        /\ tasks[k].metadata = JobMeta("position_health_monitor", ValidPositionHealth)
        /\ tasks[k].calls[1].payload.job_name = "position_health_monitor"
        /\ tasks[k].calls[1].result = Resolved
        /\ tasks[k].job \notin DOMAIN jobMetadata

RequiredFields(kind) ==
    CASE kind = "yield_scan_and_ranking" ->
             [client_agent_id |-> "string", chain |-> "string", assets |-> "strings",
              risk_tolerance |-> "string", min_tvl_usd |-> "number",
              lookback_hours |-> "number"]
      [] kind = "portfolio_yield_allocation_plan" ->
             [client_agent_id |-> "string", chain |-> "string",
              starting_capital_usd |-> "number", risk_tolerance |-> "string",
              target_horizon_days |-> "number", preferences |-> "object"]
      [] kind = "execution_bundle_builder" ->
             [client_agent_id |-> "string", chain |-> "string",
              desired_allocations |-> "array"]
      [] kind = "position_health_monitor" ->
             [client_agent_id |-> "string", chain |-> "string", positions |-> "array",
              notify_channel |-> "string", check_frequency_minutes |-> "number"]
      [] kind = "strategy_backtest_report" ->
             [client_agent_id |-> "string", chain |-> "string", strategy_name |-> "string",
              backtest_start_utc |-> "string", backtest_end_utc |-> "string",
              initial_capital_usd |-> "number", simulated_actions |-> "strings"]
OptionalFields(kind) ==
    IF kind = "execution_bundle_builder"
    THEN [slippage_bps |-> "number", deadline_seconds |-> "number",
          prefer_batching |-> "boolean"]
    ELSE [f \in {} |-> ""]
\* The field holding nested fields, its own kind, and the nested fields.
NestedIn(kind) ==
    CASE kind = "portfolio_yield_allocation_plan" ->
             [field |-> "preferences", of |-> "object",
              fields |-> [allow_leverage |-> "boolean", allow_lockups |-> "boolean",
                          max_positions |-> "number"]]
      [] kind = "execution_bundle_builder" ->
             [field |-> "desired_allocations", of |-> "array",
              fields |-> [asset_in |-> "string", asset_out |-> "string",
                          amount_in |-> "number", venue |-> "string"]]
      [] kind = "position_health_monitor" ->
             [field |-> "positions", of |-> "array",
              fields |-> [protocol |-> "string", pool_address |-> "string",
                          position_id |-> "string", health_threshold |-> "number"]]
      [] OTHER -> [field |-> "", of |-> "none", fields |-> [f \in {} |-> ""]]

HasType(v, type) ==
    CASE type = "string" -> v.t = "string"
      [] type = "number" -> v.t = "number"
      [] type = "boolean" -> v.t = "boolean"
      [] type = "array" -> v.t = "array"
      [] type = "strings" -> v.t = "array" /\ \A i \in 1..Len(v.a) : v.a[i].t = "string"
      [] type = "object" -> v.t \in {"object", "array"}

\* The dotted paths of the fields of a requirement that violate the schema.
InvalidFields(kind, req) ==
    LET nested == NestedIn(kind)
        holder == Get(req, nested.field)
    IN  {f \in DOMAIN RequiredFields(kind) : ~HasType(Get(req, f), RequiredFields(kind)[f])}
        \cup {f \in DOMAIN OptionalFields(kind) :
                  Get(req, f) # Undef /\ ~HasType(Get(req, f), OptionalFields(kind)[f])}
        \cup (IF nested.of = "object" /\ HasType(holder, "object")
              THEN {nested.field \o "." \o f : f \in
                       {g \in DOMAIN nested.fields : ~HasType(Get(holder, g), nested.fields[g])}}
              ELSE {})
        \cup (IF nested.of = "array" /\ HasType(holder, "array")
              THEN UNION {{nested.field \o "." \o ToString(i - 1) \o "." \o f : f \in
                              {g \in DOMAIN nested.fields :
                                  ~HasType(Get(holder.a[i], g), nested.fields[g])}} :
                          i \in 1..Len(holder.a)}
              ELSE {})

ErrorFields(errors) == {errors[i].field : i \in 1..Len(errors)}

(***************************************************************************)
(* C13.  Each of the five computers, called with any requirement object,   *)
(* returns (it never raises) a deliverable with the job_name of its kind   *)
(* and a timestamp_utc; when fields of the requirement are missing or of   *)
(* the wrong type the deliverable has validation_passed false and a        *)
(* non-empty validation_errors list.                                       *)
(***************************************************************************)
C13_NeverBlocked ==
    \A kind \in KindNames :
        Called(ComputerOf[kind]) =>
            /\ ~Threw(call.out)
            /\ call.out.ret.job_name = kind
            /\ call.out.ret.timestamp_utc = "nowIso"
            /\ InvalidFields(kind, call.arg) # {} =>
                   /\ call.out.ret.validation_passed = FALSE
                   /\ call.out.ret.validation_errors # <<>>

(***************************************************************************)
(* C14.  Each of the five validators, called with any requirement object,  *)
(* returns a list of errors and never raises, also when an element of      *)
(* desired_allocations or positions is null or no object.                  *)
(***************************************************************************)
C14_ValidatorsNeverRaise ==
    \A kind \in KindNames :
        Called(ValidatorOf[kind]) =>
            /\ ~Threw(call.out)
            /\ \A i \in 1..Len(call.out.ret) :
                   DOMAIN call.out.ret[i] = {"message", "field"}

(***************************************************************************)
(* C15.  For each of the five computers: a requirement that satisfies the  *)
(* schema yields validation_passed true and no validation error; every     *)
(* field that violates the schema yields exactly one error, whose field is *)
(* the dotted path of that field, so that k invalid fields yield k errors. *)
(***************************************************************************)
C15_OneErrorPerField ==
    \A kind \in KindNames :
        Called(ComputerOf[kind]) =>
            /\ ~Threw(call.out)
            /\ LET invalid == InvalidFields(kind, call.arg)
                   errors == call.out.ret.validation_errors
               IN  /\ call.out.ret.validation_passed = (invalid = {})
                   /\ Len(errors) = Cardinality(invalid)
                   /\ ErrorFields(errors) = invalid

(***************************************************************************)
(* C16.  In the deliverable of the execution bundle builder,               *)
(* slippage_bps_applied is 50 when slippage_bps is absent or no number,    *)
(* deadline_seconds_applied is 900 when deadline_seconds is absent or no   *)
(* number, prefer_batching is true when prefer_batching is absent or no    *)
(* boolean, and the meta of every transaction carries the applied slippage *)
(* and deadline.                                                           *)
(***************************************************************************)
C16_KnobDefaults ==
    (Called("handleExecutionBundle") /\ ~Threw(call.out)) =>
        LET d == call.out.ret IN
        /\ Get(call.arg, "slippage_bps").t # "number" => d.slippage_bps_applied = Num(50)
        /\ Get(call.arg, "deadline_seconds").t # "number" =>
               d.deadline_seconds_applied = Num(900)
        /\ Get(call.arg, "prefer_batching").t # "boolean" => d.prefer_batching = Bool(TRUE)
        /\ \A i \in 1..Len(d.txs) :
               /\ d.txs[i].meta.slippage_bps = d.slippage_bps_applied
               /\ d.txs[i].meta.deadline_seconds = d.deadline_seconds_applied

(***************************************************************************)
(* C17.  For a list of N asset symbols the deliverable of the yield        *)
(* scanner ranks exactly 3N venues: for every asset as many venues of each *)
(* of the risk bands low, medium and high as the list names the asset; and *)
(* every risk_score is an integer from 5 to 95, for every chain, risk      *)
(* tolerance and minimum TVL.                                              *)
(***************************************************************************)
C17_ThreeVenuesPerAsset ==
    (Called("handleYieldScan") /\ ~Threw(call.out)) =>
        LET assets == Get(call.arg, "assets").a
            ranked == call.out.ret.opportunities_ranked
        IN  /\ Len(ranked) = 3 * Len(assets)
            /\ \A symbol \in AssetSymbols, level \in {"low", "medium", "high"} :
                   Cardinality({k \in 1..Len(ranked) :
                                   ranked[k].asset = symbol /\ ranked[k].risk_band = level})
                   = Cardinality({i \in 1..Len(assets) : assets[i] = symbol})
            /\ \A k \in 1..Len(ranked) : ranked[k].risk_score \in 5..95

\* A conservative scan of two assets on a low-risk chain: six venues, and
\* the bias took the score of a low band venue below 5, where it was
\* clamped.
C17_Witness ==
    /\ Called("handleYieldScan")
    /\ ~Threw(call.out)
    /\ Get(call.arg, "risk_tolerance") = Str("conservative")
    /\ Get(call.arg, "chain") = Str("ethereum")
    /\ Len(Get(call.arg, "assets").a) = 2
    /\ Len(call.out.ret.opportunities_ranked) = 6
    /\ \E k \in 1..6 :
           /\ call.out.ret.opportunities_ranked[k].risk_band = "low"
           /\ call.out.ret.opportunities_ranked[k].risk_score = 5

(***************************************************************************)
(* C18.  opportunities_ranked is in order of non-increasing utility, the   *)
(* utility of a venue being estimated_apy - 0.2 * risk_score for the       *)
(* conservative tolerance, 1.3 * estimated_apy - 0.1 * risk_score for the  *)
(* aggressive one and estimated_apy - 0.15 * risk_score for any other; of  *)
(* two venues of equal utility the one constructed first comes first.      *)
(* Utilities are compared times 200 (estimated_apy is held in tenths).     *)
(***************************************************************************)
Utility(rt, venue) ==
    IF rt = Str("conservative") THEN 20 * venue.estimated_apy - 40 * venue.risk_score
    ELSE IF rt = Str("aggressive") THEN 26 * venue.estimated_apy - 20 * venue.risk_score
    ELSE 20 * venue.estimated_apy - 30 * venue.risk_score

\* The place of a venue in the order of construction, for a list of assets
\* without repeats.
Constructed(assets, venue) ==
    3 * (CHOOSE i \in 1..Len(assets) : assets[i] = venue.asset)
    + (CHOOSE b \in 1..3 : Levels[b] = venue.risk_band)

C18_RankedByUtility ==
    (Called("handleYieldScan") /\ ~Threw(call.out)) =>
        LET assets == Get(call.arg, "assets").a
            rt == call.out.ret.risk_tolerance
            ranked == call.out.ret.opportunities_ranked
        IN  \A i, k \in 1..Len(ranked) :
                i < k =>
                    /\ Utility(rt, ranked[i]) >= Utility(rt, ranked[k])
                    /\ (Utility(rt, ranked[i]) = Utility(rt, ranked[k])
                          /\ \A x, y \in 1..Len(assets) : assets[x] = assets[y] => x = y)
                       => Constructed(assets, ranked[i]) < Constructed(assets, ranked[k])

(***************************************************************************)
(* C19.  As stated: for every numeric preferences.max_positions, zero and  *)
(* negative values included, and every starting capital, the length of     *)
(* position_allocations_view is at most max_positions.                     *)
(***************************************************************************)
NumericLimit ==
    /\ Called("handlePortfolioPlan")
    /\ ~Threw(call.out)
    /\ Get(call.arg, "preferences").t = "object"
    /\ Get(Get(call.arg, "preferences"), "max_positions").t = "number"
Limit == TenthsOf(Get(Get(call.arg, "preferences"), "max_positions"))

C19_AtMostMaxPositions ==
    NumericLimit => 10 * Len(call.out.ret.position_allocations_view) <= Limit

(***************************************************************************)
(* C19, amended.  For every numeric preferences.max_positions and every    *)
(* starting capital, the length of position_allocations_view is at most    *)
(* the larger of 1 and max_positions rounded to the nearest integer (a     *)
(* length is at most the rounded value exactly when it is at most the      *)
(* value plus one half).                                                   *)
(***************************************************************************)
C19_AtMostClampedLimit ==
    NumericLimit => 10 * Len(call.out.ret.position_allocations_view) <= Max(10, Limit + 5)

\* max_positions is 0, the capital is positive, and the view holds one slot.
C19_Witness ==
    /\ NumericLimit
    /\ Limit = 0
    /\ Get(call.arg, "starting_capital_usd") = Num(10000)
    /\ Len(call.out.ret.buckets_view) = 3
    /\ Len(call.out.ret.position_allocations_view) = 1

(***************************************************************************)
(* C20.  For every risk tolerance and both values of allow_lockups the     *)
(* weights of the core, satellite and experimental buckets after           *)
(* normalization sum to 1; and of two requirements that differ in          *)
(* allow_lockups only, the one with allow_lockups false has a normalized   *)
(* experimental weight that is not larger.                                 *)
(***************************************************************************)
WithLockups(req, allow) ==
    Obj(("preferences" :> Obj(("allow_lockups" :> Bool(allow))
                              @@ Get(req, "preferences").o))
        @@ req.o)

C20_WeightsSumToOne ==
    (Called("handlePortfolioPlan") /\ ~Threw(call.out)
        /\ Get(call.arg, "preferences").t = "object") =>
        LET w == Weights(call.arg)
            locked == Weights(WithLockups(call.arg, FALSE))
            free == Weights(WithLockups(call.arg, TRUE))
        IN  /\ w.core + w.satellite + w.experimental = w.total
            /\ w.core > 0 /\ w.satellite > 0 /\ w.experimental > 0
            /\ locked.experimental * free.total <= free.experimental * locked.total
            /\ Len(call.out.ret.buckets_view) = 3 =>
                   \A b \in 1..3 :
                       LET percent == call.out.ret.buckets_view[b].allocation_percent IN
                       /\ 2 * percent * w.total <= 2000 * w[Archetypes[b]] + w.total
                       /\ 2 * percent * w.total > 2000 * w[Archetypes[b]] - w.total

\* Lock-ups are disallowed for a conservative plan with capital: the sum
\* before the division is below 1 and the experimental bucket shows 2.5
\* percent, against 5 percent of the same plan with lock-ups allowed.
C20_Witness ==
    /\ Called("handlePortfolioPlan")
    /\ ~Threw(call.out)
    /\ Get(call.arg, "risk_tolerance") = Str("conservative")
    /\ Get(call.arg, "preferences").t = "object"
    /\ Get(Get(call.arg, "preferences"), "allow_lockups") = Bool(FALSE)
    /\ Weights(call.arg).total < 20000
    /\ Len(call.out.ret.buckets_view) = 3
    /\ call.out.ret.buckets_view[3].allocation_percent = 25
    /\ handlePortfolioPlan(WithLockups(call.arg, TRUE)).ret.buckets_view[3].allocation_percent
           = 50

(***************************************************************************)
(* C21: when prefer_batching is applied as true, handleExecutionBundle     *)
(* returns a plan of strategy batch_by_venue whose tentative_batches has   *)
(* exactly the venues of desired_allocations as keys, and the batch of a   *)
(* venue lists, in ascending order, exactly the indices 0..n-1 of the      *)
(* allocations on that venue; when it is applied as false the plan has     *)
(* strategy sequential_execution and no tentative_batches.                 *)
(***************************************************************************)
Desired == Get(call.arg, "desired_allocations").a
VenueOf(i) == Get(Desired[i + 1], "venue").s
\* b lists exactly the members of the set of indices, in ascending order
AscendingListOf(b, indices) ==
    /\ {b[k] : k \in 1..Len(b)} = indices
    /\ \A k \in 1..Len(b) - 1 : b[k] < b[k + 1]
PartitionByVenue(plan) ==
    /\ plan.strategy = "batch_by_venue"
    /\ DOMAIN plan.tentative_batches = {VenueOf(i) : i \in 0..Len(Desired) - 1}
    /\ \A v \in DOMAIN plan.tentative_batches :
          AscendingListOf(plan.tentative_batches[v],
                          {i \in 0..Len(Desired) - 1 : VenueOf(i) = v})

C21_BatchesPartitionByVenue ==
    Called("handleExecutionBundle") =>
        /\ ~Threw(call.out)
        /\ IF preferBatching(call.arg) = Bool(TRUE)
           THEN PartitionByVenue(call.out.ret.batching_plan)
           ELSE /\ call.out.ret.batching_plan.strategy = "sequential_execution"
                /\ "tentative_batches" \notin DOMAIN call.out.ret.batching_plan

(***************************************************************************)
(* C22: in every deliverable of handlePositionHealth, a position whose     *)
(* health_threshold is a number t has synthetic_health_score 72 when       *)
(* t >= 80, 78 when 60 <= t < 80 and 85 otherwise, and its breach is true  *)
(* exactly when the score is below t; so t = 80 gives score 72 with        *)
(* breach, and breach is true exactly when t > 78.                         *)
(***************************************************************************)
HealthReturned == Called("handlePositionHealth") /\ ~Threw(call.out)
PositionsIn == Get(call.arg, "positions").a
\* the positions of the call whose threshold is a number
NumericPositions ==
    {i \in 1..Len(PositionsIn) : Get(PositionsIn[i], "health_threshold").t = "number"}
\* the threshold of position i, in tenths
ThresholdOf(i) == TenthsOf(Get(PositionsIn[i], "health_threshold"))
SnapshotOf(i) == call.out.ret.positions[i]

C22_ScoreAndBreach ==
    HealthReturned =>
        \A i \in NumericPositions :
            LET t == ThresholdOf(i)
                score == SnapshotOf(i).synthetic_health_score
            IN  /\ score = (IF t >= 800 THEN 72 ELSE IF t >= 600 THEN 78 ELSE 85)
                /\ SnapshotOf(i).breach <=> (10 * score < t)
                /\ t = 800 => (score = 72 /\ SnapshotOf(i).breach)
                /\ SnapshotOf(i).breach <=> (t > 780)

\* A monitored pair: threshold 80 scored 72 in breach, and threshold 78.5
\* scored 78 in breach.
C22_Witness ==
    /\ HealthReturned
    /\ Len(PositionsIn) = 2
    /\ NumericPositions = {1, 2}
    /\ ThresholdOf(1) = 800 /\ SnapshotOf(1).synthetic_health_score = 72 /\ SnapshotOf(1).breach
    /\ ThresholdOf(2) = 785 /\ SnapshotOf(2).synthetic_health_score = 78 /\ SnapshotOf(2).breach

(***************************************************************************)
(* C28: in every deliverable of handlePositionHealth, a position with a    *)
(* numeric threshold t and score s has severity info when s >= t + 10,     *)
(* watch when t <= s < t + 10, warning when t - 10 <= s < t and critical   *)
(* otherwise; its severity is warning or critical exactly when its breach  *)
(* is true, a position of severity warning carries the breach issue, and   *)
(* no position carries the issue of the warning branch.                    *)
(***************************************************************************)
C28_SeverityLadder ==
    HealthReturned =>
        /\ \A i \in NumericPositions :
              LET t == ThresholdOf(i)
                  s == 10 * SnapshotOf(i).synthetic_health_score
                  level == SnapshotOf(i).severity
              IN  /\ level = (IF s >= t + 100 THEN "info"
                              ELSE IF s >= t THEN "watch"
                              ELSE IF s >= t - 100 THEN "warning"
                              ELSE "critical")
                  /\ level \in {"warning", "critical"} <=> SnapshotOf(i).breach
                  /\ level = "warning" => SnapshotOf(i).issues = <<BreachIssue>>
        /\ \A i \in 1..Len(PositionsIn) :
              \A k \in 1..Len(SnapshotOf(i).issues) : SnapshotOf(i).issues[k] # WarningIssue

\* A monitored pair: threshold 80 scored 72, a warning with the breach
\* issue, and threshold 75 scored 78, a watch.
C28_Witness ==
    /\ HealthReturned
    /\ Len(PositionsIn) = 2
    /\ NumericPositions = {1, 2}
    /\ ThresholdOf(1) = 800
    /\ SnapshotOf(1).severity = "warning" /\ SnapshotOf(1).issues = <<BreachIssue>>
    /\ ThresholdOf(2) = 750
    /\ SnapshotOf(2).severity = "watch" /\ SnapshotOf(2).issues = <<WatchIssue>>

(***************************************************************************)
(* C23: called with initial_capital_usd 10000, the window from 2024-01-01  *)
(* to 2024-01-31 (30 days), a strategy_name that holds none of the         *)
(* keywords degen, leveraged and neutral, and 10 simulated actions,        *)
(* handleBacktest returns a deliverable whose total_return_pct is 1.5,     *)
(* which is 18% * (30 / 365) * 100 rounded to one decimal.                 *)
(***************************************************************************)
HasKeyword(name) ==
    LET n == toLowerCase(name) IN
    includes(n, "degen") \/ includes(n, "leveraged") \/ includes(n, "neutral")
PlainThirtyDayRun ==
    /\ Called("handleBacktest")
    /\ Get(call.arg, "initial_capital_usd") = Num(10000)
    /\ Get(call.arg, "backtest_start_utc") = Str("2024-01-01T00:00:00Z")
    /\ Get(call.arg, "backtest_end_utc") = Str("2024-01-31T00:00:00Z")
    /\ ~HasKeyword(Get(call.arg, "strategy_name").s)
    /\ Len(Get(call.arg, "simulated_actions").a) = 10

C23_ThirtyDayReturn ==
    PlainThirtyDayRun =>
        /\ ~Threw(call.out)
        /\ call.out.ret.total_return_pct = Tenths(15)

(***************************************************************************)
(* C24: when lockups are disallowed, handlePortfolioPlan halves the        *)
(* experimental weight and adds the whole freed half, in two equal parts,  *)
(* to the core and the satellite weight: the three weights sum to 1        *)
(* before the division by their sum, which therefore changes nothing, and  *)
(* the buckets show core + experimental / 4, satellite + experimental / 4  *)
(* and experimental / 2 of the weights of the risk tolerance.              *)
(***************************************************************************)
LockupsDisallowed ==
    /\ Called("handlePortfolioPlan")
    /\ ~Threw(call.out)
    /\ ~Truthy(Get(preferencesApplied(call.arg), "allow_lockups"))
\* the weights of the statement, in units of 1/20000
FreedHalfShared ==
    LET w == bucketWeights(OrElse(Get(call.arg, "risk_tolerance"), Str("balanced"))) IN
    [core |-> w.core + w.experimental \div 4,
     satellite |-> w.satellite + w.experimental \div 4,
     experimental |-> w.experimental \div 2]

C24_FreedWeightShared ==
    LockupsDisallowed =>
        /\ Weights(call.arg).total = 20000
        /\ \A a \in {"core", "satellite", "experimental"} :
              Weights(call.arg)[a] = FreedHalfShared[a]
        /\ \A b \in 1..Len(call.out.ret.buckets_view) :
              call.out.ret.buckets_view[b].allocation_percent
                  = (2000 * FreedHalfShared[Archetypes[b]] + 20000) \div 40000

(***************************************************************************)
(* C25: when a delivery handler of a job is suspended on job.deliver and   *)
(* a negotiation event of the same job arrives meanwhile and stores named  *)
(* metadata, the step in which that deliver resolves removes the entry of  *)
(* the job, the newly stored one included, and leaves the negotiation's    *)
(* handler and its acceptance as they are: the store then has no entry     *)
(* for a job whose new negotiation was accepted.                           *)
(***************************************************************************)
\* this step is the resolution of the first deliver of task i
DeliveryResolves(i) == tasks[i].pc = "await_deliver" /\ tasks'[i].pc = "returned"
\* task k is a named negotiation of the job of task i that arrived after it
Renegotiated(i, k) ==
    /\ i < k
    /\ tasks[k].job = tasks[i].job
    /\ IsNegotiation(tasks[k])
    /\ HasName(Structured(tasks[k]))

C25_OverlapLosesMetadata ==
    [][\A i, k \in 1..Len(tasks) :
          (IsDelivery(tasks[i]) /\ DeliveryResolves(i) /\ Renegotiated(i, k)) =>
              /\ tasks[i].job \notin DOMAIN jobMetadata'
              /\ tasks'[k] = tasks[k]]_vars

\* A delivery was suspended, a named negotiation of the same job arrived
\* and was accepted, the delivery resolved, and the store has no entry.
C25_Witness ==
    /\ Len(tasks) = 2
    /\ tasks[1].job = tasks[2].job
    /\ IsDelivery(tasks[1])
    /\ tasks[1].pc = "returned"
    /\ Len(tasks[1].calls) = 1 /\ tasks[1].calls[1].result = Resolved
    /\ IsNegotiation(tasks[2])
    /\ NamesKind(Structured(tasks[2]))
    /\ tasks[2].pc = "returned"
    /\ AcceptCalls(tasks[2]) = {1} /\ tasks[2].calls[1].result = Resolved
    /\ tasks[1].job \notin DOMAIN jobMetadata

(***************************************************************************)
(* C26: the entry a negotiation event stores is not taken back when its    *)
(* acceptance fails: for a named negotiation whose respond(true) was       *)
(* rejected and which went on to respond(false), the store still holds     *)
(* the content of that event, unless a later named negotiation of the job  *)
(* replaced it or a delivery of the job resolved.                          *)
(***************************************************************************)
\* task k may have replaced or removed what task i stored
Interferes(i, k) ==
    /\ k # i
    /\ tasks[k].job = tasks[i].job
    /\ \/ k > i /\ IsNegotiation(tasks[k]) /\ HasName(Structured(tasks[k]))
       \/ /\ IsDelivery(tasks[k])
          /\ \E c \in CallsOf(tasks[k], "deliver") : tasks[k].calls[c].result = Resolved
\* the acceptance of negotiation i failed and the rejection was sent
AcceptanceFailed(i) ==
    /\ IsNegotiation(tasks[i])
    /\ HasName(Structured(tasks[i]))
    /\ tasks[i].calls[1].result.state = "rejected"
    /\ RejectCalls(tasks[i]) # {}

C26_NoRollback ==
    \A i \in 1..Len(tasks) :
        (AcceptanceFailed(i) /\ ~\E k \in 1..Len(tasks) : Interferes(i, k)) =>
            MapGet(jobMetadata, tasks[i].job) = Structured(tasks[i])

\* A named negotiation was rejected after its acceptance failed, the
\* handler returned, and the store holds its content.
C26_Witness ==
    \E i \in 1..Len(tasks) :
        /\ AcceptanceFailed(i)
        /\ tasks[i].calls[2].result = Resolved
        /\ tasks[i].pc = "returned"
        /\ tasks[i].job \in DOMAIN jobMetadata
        /\ jobMetadata[tasks[i].job] = Structured(tasks[i])

(***************************************************************************)
(* C27: a pending negotiation event whose structuredContent is absent or   *)
(* has no name leaves the store as it is, the entry of its own job         *)
(* included; and a delivery event that arrives for a job with an entry,    *)
(* after such a negotiation, is routed with that entry, whatever the       *)
(* delivery event itself carries.                                          *)
(***************************************************************************)
Unnamed(t) == IsNegotiation(t) /\ ~HasName(Structured(t))

C27_UnnamedKeepsEntry ==
    [][Arrives =>
          /\ Unnamed(Arrived) => jobMetadata' = jobMetadata
          /\ (/\ IsDelivery(Arrived)
              /\ Arrived.job \in DOMAIN jobMetadata
              /\ \E k \in TasksOf(Arrived.job) : Unnamed(tasks[k]))
             => /\ Arrived.metadata = jobMetadata[Arrived.job]
                /\ Arrived.calls = <<DeliverCall(routeJobDeliverable(Arrived.metadata).ret)>>]_vars

\* A named negotiation, then a negotiation without content, then a delivery
\* that carries content of its own and is served from the first event's.
C27_Witness ==
    /\ Len(tasks) = 3
    /\ IsNegotiation(tasks[1]) /\ NamesKind(Structured(tasks[1]))
    /\ Unnamed(tasks[2])
    /\ IsDelivery(tasks[3])
    /\ HasName(Structured(tasks[3]))
    /\ Structured(tasks[3]) # Structured(tasks[1])
    /\ tasks[3].metadata = Structured(tasks[1])
    /\ tasks[3].calls[1].payload.job_name = Get(Structured(tasks[1]), "name").s

====
